---- MODULE Spec2Model ----
(***************************************************************************)
(* Node test and selection pipeline of Aggregate-Preferred-Node.           *)
(*                                                                         *)
(* Two programs of the repository share the pipeline:                      *)
(*   "NodeSelector"          - class NodeSelector of "Aggregate            *)
(*                             Optimizer.py" (src/unnamed/part_000, the    *)
(*                             second class of that file, lines 601-1295)  *)
(*   "SubscriptionGenerator" - class SubscriptionGenerator of              *)
(*                             src/node_selector.py                        *)
(* The variable `variant` says which of the two programs is running; the   *)
(* operators take it as parameter `v` wherever the two differ.             *)
(*                                                                         *)
(* Text is modelled as sequences of one-character strings.  Scores are     *)
(* kept in tenths of a point (round(x, 1) has one decimal), so 97.0 is     *)
(* the integer 970.                                                        *)
(***************************************************************************)
EXTENDS Integers, Sequences, FiniteSets, TLC

VARIABLES
    variant,            \* which program runs
    latency_threshold,  \* self.latency_threshold
    max_workers,        \* self.max_workers
    test_count,         \* self.test_count
    top_n,              \* self.top_n of SubscriptionGenerator; None in NodeSelector, which has none
    sc_pc,              \* calculate_score: "call" before, "done" after the call
    sc_latency,         \* calculate_score: argument latency
    sc_speed,           \* calculate_score: argument speed
    sc_success,         \* calculate_score: argument success
    sc_latency_score,   \* calculate_score: local latency_score, None while unassigned
    sc_speed_score,     \* calculate_score: local speed_score, None while unassigned
    sc_score,           \* calculate_score: returned value, in tenths
    lt_pc,              \* test_latency: "loop", "done" (returned), "raised"
    lt_i,               \* test_latency: index in test_urls of the next endpoint
    test_results,       \* test_latency: local test_results
    fastest_success,    \* test_latency: local fastest_success
    lt_log,             \* test_latency: the requests and pauses made, in order
    lt_ret,             \* test_latency: the returned dict
    pl_pc,              \* parse_node_line: "call" before, "done" after the call
    line,               \* parse_node_line: argument line
    node,               \* parse_node_line: returned descriptor or None
    dd_runs,            \* deduplication: how often it has been applied to dd_list
    dd_list,            \* deduplication: the list it is applied to, then its result
    dd_prev,            \* deduplication: the list before the latest application
    ld_pc,              \* load_all_nodes: "call" before, "done" after the call
    nodes_file,         \* the lines of the local nodes file, None if unreadable
    subscriptions,      \* per subscription URL: the lines fetched, None if the fetch failed
    all_nodes,          \* load_all_nodes: local all_nodes
    unique_nodes,       \* load_all_nodes: local unique_nodes before sampling
    nodes,              \* load_all_nodes: the returned list
    rt_pc,              \* run_tests: where the main thread is
    submitted,          \* run_tests: how many probes have been submitted to the pool
    threads,            \* the pool: how many worker threads it has started
    fut,                \* per descriptor: its future (state, input and outcome of the probe)
    snap,               \* as_completed: futures found finished when it was called, not yet yielded
    done_q,             \* as_completed: futures finished since, in finishing order, not yet yielded
    completion_order,   \* the probes that have finished, in the order they finished
    started,            \* the probes a worker has taken, in the order they were taken
    lock,               \* self.lock: "free", or the thread that holds it
    results,            \* self.results
    passed_count,       \* run_tests: local passed_count
    speed_tested_count, \* run_tests: local speed_tested_count
    se_pc,              \* main after run_tests: "ranked" (self.results is sorted), "saved"
                        \*   (NodeSelector is about to generate), "done", "aborted"
    preferred_nodes,    \* 'preferred_nodes' of the results file of NodeSelector
    valid_nodes,        \* the local valid_nodes of the generator of the artifact
    results_file,       \* the rest of the results file of NodeSelector, None while not written
    output,             \* the lines of the text artifact, None while not written
    reported,           \* what main and the generator have printed about the run
    pb_pc,              \* test_single_node: "call" before, "done" after the call
    pb_input,           \* test_single_node: what the network and the console do during the call
    pb_out              \* test_single_node: how the call ended and what its speed test did

cfgVars   == <<variant, latency_threshold, max_workers, test_count, top_n>>
scoreVars == <<sc_pc, sc_latency, sc_speed, sc_success, sc_latency_score, sc_speed_score,
               sc_score>>
latVars   == <<lt_pc, lt_i, test_results, fastest_success, lt_log, lt_ret>>
parseVars == <<pl_pc, line, node>>
dedupVars == <<dd_runs, dd_list, dd_prev>>
envVars   == <<nodes_file, subscriptions>>
loadVars  == <<ld_pc, all_nodes, unique_nodes, nodes>>
schedVars == <<rt_pc, submitted, threads, fut, snap, done_q, completion_order, started,
               lock, results,
               passed_count, speed_tested_count>>
selVars   == <<se_pc, preferred_nodes, valid_nodes, results_file, output, reported>>
probeVars == <<pb_pc, pb_input, pb_out>>
vars      == <<cfgVars, scoreVars, latVars, parseVars, dedupVars, envVars, loadVars,
               schedVars, selVars, probeVars>>

Variants == {"NodeSelector", "SubscriptionGenerator"}

\* Python's None, as a record so that it compares with the dicts it stands in for
None == [none |-> TRUE]

(***************************************************************************)
(* Command line defaults (parse_arguments).                                *)
(***************************************************************************)
DefaultLatencyThreshold(v) == IF v = "NodeSelector" THEN 3000 ELSE 2000
DefaultWorkers == 3
DefaultTestCount == 0
DefaultTopN == 15
\* --top-n as the program starts with it
InitTopN == top_n = IF variant = "NodeSelector" THEN None ELSE DefaultTopN

InitCfgDefault ==
    /\ variant \in Variants
    /\ latency_threshold = DefaultLatencyThreshold(variant)
    /\ max_workers = DefaultWorkers
    /\ test_count = DefaultTestCount
    /\ InitTopN

(***************************************************************************)
(* Scorer: calculate_score(latency, speed, success).                       *)
(***************************************************************************)
\* a variant of the latency table with two steps exchanged
latency_score_swapped(v, latency) ==
    IF latency < 50 THEN 100
    ELSE IF latency < 100 THEN 85
    ELSE IF latency < 200 THEN 95
    ELSE IF latency < 300 THEN 75
    ELSE IF latency < 500 THEN 60
    ELSE IF v = "NodeSelector" /\ latency >= 1000 THEN 20
    ELSE 40

latency_score(v, latency) ==
    IF latency < 50 THEN 100
    ELSE IF latency < 100 THEN 95
    ELSE IF latency < 200 THEN 85
    ELSE IF latency < 300 THEN 75
    ELSE IF latency < 500 THEN 60
    ELSE IF v = "NodeSelector"
         THEN (IF latency < 1000 THEN 40 ELSE 20)
         ELSE 40

\* the throughput table with >= for > at its steps
speed_score_ge(v, speed) ==
    IF v = "NodeSelector"
    THEN IF speed = 0 THEN 0
         ELSE IF speed >= 10000 THEN 100
         ELSE IF speed >= 5000 THEN 90
         ELSE IF speed >= 2000 THEN 80
         ELSE IF speed >= 1000 THEN 70
         ELSE IF speed >= 500 THEN 60
         ELSE IF speed >= 100 THEN 40
         ELSE 20
    ELSE IF speed = 0 THEN 0
         ELSE IF speed >= 5000 THEN 100
         ELSE IF speed >= 2000 THEN 90
         ELSE IF speed >= 1000 THEN 80
         ELSE IF speed >= 500 THEN 70
         ELSE IF speed >= 100 THEN 50
         ELSE 30

speed_score(v, speed) ==
    IF v = "NodeSelector"
    THEN IF speed = 0 THEN 0
         ELSE IF speed > 10000 THEN 100
         ELSE IF speed > 5000 THEN 90
         ELSE IF speed > 2000 THEN 80
         ELSE IF speed > 1000 THEN 70
         ELSE IF speed > 500 THEN 60
         ELSE IF speed > 100 THEN 40
         ELSE 20
    ELSE IF speed = 0 THEN 0
         ELSE IF speed > 5000 THEN 100
         ELSE IF speed > 2000 THEN 90
         ELSE IF speed > 1000 THEN 80
         ELSE IF speed > 500 THEN 70
         ELSE IF speed > 100 THEN 50
         ELSE 30

success_score(success) == IF success THEN 100 ELSE 0

\* the weighted sum without the division by 1.2 (and, in NodeSelector, with
\* the weights 0.6/0.4/0.2 of the other program)
total_score_unnormalised(v, l, s, u) == 6 * l + 4 * s + 2 * u

\* the weighted sum with the weights of latency and throughput exchanged
total_score_swapped_weights(v, l, s, u) ==
    IF v = "NodeSelector"
    THEN 3 * l + 5 * s + 2 * u
    ELSE (10 * (4 * l + 6 * s + 2 * u) + 6) \div 12

\* round(total_score, 1), in tenths.  NodeSelector: 0.5*l + 0.3*s + 0.2*u is a
\* whole number of tenths or of half points, so ten times it is exact.
\* SubscriptionGenerator: (0.6*l + 0.4*s + 0.2*u) / 1.2 = (6l + 4s + 2u) / 12;
\* in tenths 10*(6l + 4s + 2u)/12, rounded to the nearest integer (the value is
\* a multiple of 1/6 and the components are multiples of 5, so no tie occurs).
total_score(v, l, s, u) ==
    IF v = "NodeSelector"
    THEN 5 * l + 3 * s + 2 * u
    ELSE (10 * (6 * l + 4 * s + 2 * u) + 6) \div 12

\* the guard of calculate_score with the boundary value let through
calculate_score_lt(v, latency, speed, success) ==
    IF latency < 0 THEN 0
    ELSE total_score(v, latency_score(v, latency), speed_score(v, speed),
                     success_score(success))

calculate_score(v, latency, speed, success) ==
    IF latency <= 0 THEN 0
    ELSE total_score(v, latency_score(v, latency), speed_score(v, speed),
                     success_score(success))

\* Inputs of the scorer: every breakpoint of the two tables and its
\* neighbours, and the probe of 45 ms and 6000 KB/s.
Slack == 1
LatencyBreakpoints == {0, 50, 100, 200, 300, 500, 1000}
SpeedBreakpoints == {0, 100, 500, 1000, 2000, 5000, 10000}
ScoreLatencies == {b + d : b \in LatencyBreakpoints, d \in (0 - Slack)..Slack} \cup {45}
ScoreSpeeds ==
    ({b + d : b \in SpeedBreakpoints, d \in (0 - Slack)..Slack} \cap Nat) \cup {6000}

InitScore ==
    /\ sc_pc = "call"
    /\ sc_latency \in ScoreLatencies
    /\ sc_speed \in ScoreSpeeds
    /\ sc_success \in BOOLEAN
    /\ sc_latency_score = None
    /\ sc_speed_score = None
    /\ sc_score = None

IdleScore ==
    /\ sc_pc = "idle"
    /\ sc_latency = 0
    /\ sc_speed = 0
    /\ sc_success = FALSE
    /\ sc_latency_score = None
    /\ sc_speed_score = None
    /\ sc_score = None

\* a call of calculate_score: its locals at the return and the value returned;
\* the early return for latency <= 0 leaves the locals unassigned
CalculateScore ==
    /\ sc_pc = "call"
    /\ sc_latency_score' =
           IF sc_latency <= 0 THEN None ELSE latency_score(variant, sc_latency)
    /\ sc_speed_score' =
           IF sc_latency <= 0 THEN None ELSE speed_score(variant, sc_speed)
    /\ sc_score' = calculate_score(variant, sc_latency, sc_speed, sc_success)
    /\ sc_pc' = "done"
    /\ UNCHANGED <<cfgVars, selVars, probeVars, sc_latency, sc_speed, sc_success, latVars, parseVars,
                   dedupVars, envVars, loadVars, schedVars>>

(***************************************************************************)
(* Probe engine, latency protocol: test_latency(node).                     *)
(***************************************************************************)
\* self.test_urls; weight in tenths
test_urls(v) ==
    IF v = "NodeSelector"
    THEN << [name |-> "Google Static", expected_status |-> 204, weight |-> 10],
            [name |-> "HttpBin",       expected_status |-> 200, weight |-> 9],
            [name |-> "Cloudflare",    expected_status |-> 200, weight |-> 8],
            [name |-> "GitHub",        expected_status |-> 200, weight |-> 7] >>
    ELSE << [name |-> "Google Static", expected_status |-> 204, weight |-> 10],
            [name |-> "HttpBin",       expected_status |-> 200, weight |-> 9] >>

\* What one requests.get of test_latency can do: answer (with a status, after
\* a measured time), raise requests.RequestException, or raise something else.
Response(latency, status) == [kind |-> "response", latency |-> latency, status |-> status]
RequestException == [kind |-> "RequestException", latency |-> -1, status |-> 0]
OtherException == [kind |-> "Exception", latency |-> -1, status |-> 0]

\* `if is_success and latency < self.latency_threshold` with <= for <
counts_as_success_le(thr, is_success, latency) == is_success /\ latency <= thr

\* `if is_success and latency < self.latency_threshold`
counts_as_success(thr, is_success, latency) == is_success /\ latency < thr

\* the update of fastest_success keeping the latest success instead of the fastest
new_fastest_latest(fastest, test_result) == test_result

\* `if not fastest_success or latency < fastest_success['latency']`
new_fastest(fastest, test_result) ==
    IF fastest = None \/ test_result.latency < fastest.latency
    THEN test_result
    ELSE fastest

\* the early exit taken only by a successful attempt
early_exit_on_success(latency, is_success) == is_success /\ latency < 100

\* `if latency < 100: break`
early_exit(latency, is_success) == latency < 100

\* the handler of the request exception ending the loop
after_request_exception_stop(last) == "done"

\* where the loop is after `except requests.RequestException`: at the next
\* endpoint, or at the return after the last one
after_request_exception(last) == IF last THEN "done" ELSE "loop"

\* One iteration of `for test_url in self.test_urls` on the locals st, for the
\* outcome o of the request.  The error field stands for the presence of the
\* 'error' key in the record of a failed request.
latency_iteration(v, thr, st, o) ==
    LET test_url == test_urls(v)[st.i]
        last == st.i = Len(test_urls(v))
        is_success == o.status = test_url.expected_status
        test_result == [url |-> test_url.name, latency |-> o.latency,
                        status |-> o.status, success |-> is_success,
                        error |-> FALSE, weight |-> test_url.weight]
        failed == [url |-> test_url.name, latency |-> -1, status |-> 0,
                   success |-> FALSE, error |-> TRUE, weight |-> test_url.weight]
        get == <<"get", st.i>>
    IN  IF o.kind = "Exception"
        THEN [st EXCEPT !.pc = "raised", !.log = Append(@, get)]
        ELSE IF o.kind = "RequestException"
        THEN [st EXCEPT !.test_results = Append(@, failed),
                        !.log = Append(@, get),
                        !.i = @ + 1,
                        !.pc = after_request_exception(last)]
        ELSE LET fs == IF counts_as_success(thr, is_success, o.latency)
                       THEN new_fastest(st.fastest_success, test_result)
                       ELSE st.fastest_success
             IN  IF early_exit(o.latency, is_success)
                 THEN [st EXCEPT !.test_results = Append(@, test_result),
                                 !.fastest_success = fs,
                                 !.log = Append(@, get),
                                 !.pc = "done"]
                 ELSE [st EXCEPT !.test_results = Append(@, test_result),
                                 !.fastest_success = fs,
                                 !.log = Append(Append(@, get), <<"sleep", st.i>>),
                                 !.i = @ + 1,
                                 !.pc = IF last THEN "done" ELSE "loop"]

\* the locals of test_latency on entry
latency_locals ==
    [pc |-> "loop", i |-> 1, test_results |-> << >>, fastest_success |-> None,
     log |-> << >>]

\* the dict test_latency returns
latency_return(st) ==
    [fastest_success |-> st.fastest_success,
     all_results |-> st.test_results,
     passed |-> st.fastest_success # None]

\* Measured times and statuses the requests are given in the model.
StatusSamples == {200, 204, 503}
LatencySamples(thr) == {0, 80, 99, 100, thr - 1, thr}
GetOutcomes(thr) ==
    {Response(l, s) : l \in LatencySamples(thr), s \in StatusSamples}
        \cup {RequestException, OtherException}

\* latency_threshold as configured: the default of the program, or a value
\* below the early-exit mark of 100 ms
LowThreshold == 50
ThresholdSamples(v) == {DefaultLatencyThreshold(v), LowThreshold}

InitLatency ==
    /\ lt_pc = "loop"
    /\ lt_i = 1
    /\ test_results = << >>
    /\ fastest_success = None
    /\ lt_log = << >>
    /\ lt_ret = None

IdleLatency ==
    /\ lt_pc = "idle"
    /\ lt_i = 1
    /\ test_results = << >>
    /\ fastest_success = None
    /\ lt_log = << >>
    /\ lt_ret = None

\* one request of test_latency and what the loop does with it; the iteration
\* that ends the loop also returns
LatencyAttempt ==
    /\ lt_pc = "loop"
    /\ \E o \in GetOutcomes(latency_threshold) :
           LET st == [pc |-> lt_pc, i |-> lt_i, test_results |-> test_results,
                      fastest_success |-> fastest_success, log |-> lt_log]
               nst == latency_iteration(variant, latency_threshold, st, o)
           IN  /\ lt_pc' = nst.pc
               /\ lt_i' = nst.i
               /\ test_results' = nst.test_results
               /\ fastest_success' = nst.fastest_success
               /\ lt_log' = nst.log
               /\ lt_ret' = IF nst.pc = "done" THEN latency_return(nst) ELSE None
    /\ UNCHANGED <<cfgVars, selVars, probeVars, scoreVars, parseVars, dedupVars, envVars, loadVars, schedVars>>

(***************************************************************************)
(* Descriptor parser: parse_node_line(line).                               *)
(***************************************************************************)
Letters ==
    {"a", "b", "c", "d", "e", "f", "g", "h", "i", "j", "k", "l", "m",
     "n", "o", "p", "q", "r", "s", "t", "u", "v", "w", "x", "y", "z",
     "A", "B", "C", "D", "E", "F", "G", "H", "I", "J", "K", "L", "M",
     "N", "O", "P", "Q", "R", "S", "T", "U", "V", "W", "X", "Y", "Z"}
Digits == {"0", "1", "2", "3", "4", "5", "6", "7", "8", "9"}
\* the class [A-Za-z0-9+/=]
B64Class == Letters \cup Digits \cup {"+", "/", "="}
Whitespace == {" "}

StartsWith(s, p) == Len(s) >= Len(p) /\ SubSeq(s, 1, Len(p)) = p
Drop(s, n) == SubSeq(s, n + 1, Len(s))

\* str.strip()
RECURSIVE lstrip(_)
lstrip(s) == IF s # << >> /\ Head(s) \in Whitespace THEN lstrip(Tail(s)) ELSE s
RECURSIVE rstrip(_)
rstrip(s) ==
    IF s # << >> /\ s[Len(s)] \in Whitespace
    THEN rstrip(SubSeq(s, 1, Len(s) - 1))
    ELSE s
strip(s) == rstrip(lstrip(s))

\* the longest prefix of s made of characters of class cls (a greedy cls*)
RECURSIVE Run(_, _)
Run(s, cls) ==
    IF s # << >> /\ Head(s) \in cls THEN <<Head(s)>> \o Run(Tail(s), cls) ELSE << >>

\* the longest prefix of s without character c (a greedy [^c]*)
RECURSIVE Until(_, _)
Until(s, c) ==
    IF s # << >> /\ Head(s) # c THEN <<Head(s)>> \o Until(Tail(s), c) ELSE << >>

\* re.match found nothing; a match is given by its groups, of which every
\* regex of the parser has at least one
NoMatch == << >>

\* re.match(r'^<scheme>([A-Za-z0-9+/=]+)'): the groups, or NoMatch
match_b64(scheme, s) ==
    IF StartsWith(s, scheme) /\ Run(Drop(s, Len(scheme)), B64Class) # << >>
    THEN << Run(Drop(s, Len(scheme)), B64Class) >>
    ELSE NoMatch

\* re.match(r'^([^:]+):(\d+)') on s: the groups, or NoMatch.  [^:]+ is followed
\* by ':', so it ends at the first ':' of s.
match_host_port_prefix(s) ==
    LET host == Until(s, ":")
        after == Drop(s, Len(host))
        port == Run(Drop(after, 1), Digits)
    IN  IF host # << >> /\ after # << >> /\ port # << >>
        THEN <<host, port>>
        ELSE NoMatch

\* re.match(r'^<scheme>([^:]+):(\d+)')
match_scheme_host_port(scheme, s) ==
    IF StartsWith(s, scheme)
    THEN match_host_port_prefix(Drop(s, Len(scheme)))
    ELSE NoMatch

\* re.match(r'^<scheme>([^@]+)@([^:]+):(\d+)'): [^@]+ ends at the first '@'
match_user_host_port(scheme, s) ==
    LET rest == Drop(s, Len(scheme))
        user == Until(rest, "@")
        after == Drop(rest, Len(user))
        hp == match_host_port_prefix(Drop(after, 1))
    IN  IF StartsWith(s, scheme) /\ user # << >> /\ after # << >> /\ hp # NoMatch
        THEN <<user>> \o hp
        ELSE NoMatch

\* re.match(r'^([^:]+):(\d+)$'): the digits reach the end of the line
match_host_port(s) ==
    LET hp == match_host_port_prefix(s)
    IN  IF hp # NoMatch /\ Len(hp[1]) + 1 + Len(hp[2]) = Len(s) THEN hp ELSE NoMatch

SSR    == <<"s", "s", "r", ":", "/", "/">>
VMESS  == <<"v", "m", "e", "s", "s", ":", "/", "/">>
TROJAN == <<"t", "r", "o", "j", "a", "n", ":", "/", "/">>
VLESS  == <<"v", "l", "e", "s", "s", ":", "/", "/">>
SS     == <<"s", "s", ":", "/", "/">>
HTTP   == <<"h", "t", "t", "p", ":", "/", "/">>
SOCKS5 == <<"s", "o", "c", "k", "s", "5", ":", "/", "/">>

\* re.match(pattern['regex'], line) for the regex of the grammar named type
regex_match(type, s) ==
    CASE type = "ssr"       -> match_b64(SSR, s)
      [] type = "vmess"     -> match_b64(VMESS, s)
      [] type = "trojan"    -> match_user_host_port(TROJAN, s)
      [] type = "vless"     -> match_user_host_port(VLESS, s)
      [] type = "ss"        -> match_b64(SS, s)
      [] type = "http"      -> match_scheme_host_port(HTTP, s)
      [] type = "socks5"    -> match_scheme_host_port(SOCKS5, s)
      [] type = "host-port" -> match_host_port(s)

\* the list `patterns` with the entries of ss and ssr tagged with each other's type
patterns_mistagged(v) ==
    IF v = "NodeSelector"
    THEN << [regex |-> "ssr", type |-> "ss"], [regex |-> "vmess", type |-> "vmess"],
            [regex |-> "trojan", type |-> "trojan"], [regex |-> "vless", type |-> "vless"],
            [regex |-> "ss", type |-> "ssr"], [regex |-> "http", type |-> "http"],
            [regex |-> "socks5", type |-> "socks5"],
            [regex |-> "host-port", type |-> "host-port"] >>
    ELSE << [regex |-> "ssr", type |-> "ss"], [regex |-> "vmess", type |-> "vmess"],
            [regex |-> "trojan", type |-> "trojan"], [regex |-> "vless", type |-> "vless"],
            [regex |-> "ss", type |-> "ssr"] >>

\* the list `patterns` of parse_node_line: regex (named by its grammar) and type
patterns(v) ==
    IF v = "NodeSelector"
    THEN << [regex |-> "ssr", type |-> "ssr"], [regex |-> "vmess", type |-> "vmess"],
            [regex |-> "trojan", type |-> "trojan"], [regex |-> "vless", type |-> "vless"],
            [regex |-> "ss", type |-> "ss"], [regex |-> "http", type |-> "http"],
            [regex |-> "socks5", type |-> "socks5"],
            [regex |-> "host-port", type |-> "host-port"] >>
    ELSE << [regex |-> "ssr", type |-> "ssr"], [regex |-> "vmess", type |-> "vmess"],
            [regex |-> "trojan", type |-> "trojan"], [regex |-> "vless", type |-> "vless"],
            [regex |-> "ss", type |-> "ss"] >>

\* `for pattern in patterns`, from the i-th pattern on
RECURSIVE parse_from(_, _, _)
parse_from(v, s, i) ==
    IF i > Len(patterns(v)) THEN None
    ELSE IF regex_match(patterns(v)[i].regex, s) # NoMatch
    THEN [original |-> s, type |-> patterns(v)[i].type,
          parts |-> regex_match(patterns(v)[i].regex, s)]
    ELSE parse_from(v, s, i + 1)

parse_node_line(v, l) == parse_from(v, strip(l), 1)

\* Lines given to the parser: a scheme (or none, or a near miss of one)
\* followed by up to MaxTail characters, one of each class the grammars tell
\* apart: a letter, a digit, ':', '@' and a blank.
MaxTail == 5
TailChars == {"a", "1", ":", "@", " "}
Schemes ==
    { << >>, SSR, VMESS, TROJAN, VLESS, SS, HTTP, SOCKS5,
      <<" ">> \o SS, <<"s", "s", ":", "/">>, <<"s", "s", "r", ":">> }
RECURSIVE SeqsUpTo(_, _)
SeqsUpTo(S, n) ==
    IF n = 0 THEN { << >> }
    ELSE LET shorter == SeqsUpTo(S, n - 1)
         IN  shorter \cup {Append(t, c) : t \in {x \in shorter : Len(x) = n - 1}, c \in S}
ParserLines(n) == {p \o t : p \in Schemes, t \in SeqsUpTo(TailChars, n)}

InitParse ==
    /\ pl_pc = "call"
    /\ line \in ParserLines(MaxTail)
    /\ node = None

IdleParse ==
    /\ pl_pc = "idle"
    /\ line = << >>
    /\ node = None

ParseNodeLine ==
    /\ pl_pc = "call"
    /\ node' = parse_node_line(variant, line)
    /\ pl_pc' = "done"
    /\ UNCHANGED <<cfgVars, selVars, probeVars, scoreVars, latVars, line, dedupVars, envVars, loadVars, schedVars>>

(***************************************************************************)
(* Loading and deduplication: parse_nodes_file, parse_subscription_content *)
(* and load_all_nodes.  A readable file or a fetched payload is the record  *)
(* [lines |-> the sequence of its lines]; None stands for a file that is    *)
(* missing or unreadable and for a fetch that failed.                       *)
(***************************************************************************)
\* node['source'] = src
with_source(n, src) ==
    [original |-> n.original, type |-> n.type, parts |-> n.parts, source |-> src]

\* `not line or line.startswith('#')` of a stripped line
skipped(l) == l = << >> \/ Head(l) = "#"

\* parse_nodes_file giving up at the first line that cannot be parsed
RECURSIVE parse_nodes_file_until_unparsable(_, _)
parse_nodes_file_until_unparsable(v, file) ==
    IF file = None \/ file.lines = << >> THEN << >>
    ELSE LET l == strip(Head(file.lines))
             n == parse_node_line(v, l)
             rest == parse_nodes_file_until_unparsable(v, [lines |-> Tail(file.lines)])
         IN  IF skipped(l) THEN rest
             ELSE IF n = None THEN << >>
             ELSE <<n>> \o rest

\* parse_nodes_file: the descriptors of the parsable lines, in file order;
\* nothing when the file is missing or cannot be read
RECURSIVE parse_nodes_file(_, _)
parse_nodes_file(v, file) ==
    IF file = None \/ file.lines = << >> THEN << >>
    ELSE LET l == strip(Head(file.lines))
             n == parse_node_line(v, l)
             rest == parse_nodes_file(v, [lines |-> Tail(file.lines)])
         IN  IF skipped(l) \/ n = None THEN rest ELSE <<n>> \o rest

\* `sub in s`
contains(s, sub) ==
    \E i \in 1..(Len(s) - Len(sub) + 1) : SubSeq(s, i, i + Len(sub) - 1) = sub

\* any(proto in line for proto in ['ss://', 'ssr://', 'vmess://', 'trojan://', 'vless://'])
has_proxy_scheme(l) == \E proto \in {SS, SSR, VMESS, TROJAN, VLESS} : contains(l, proto)

\* parse_subscription_content
RECURSIVE parse_subscription_content(_, _)
parse_subscription_content(v, content) ==
    IF content.lines = << >> THEN << >>
    ELSE LET l == strip(Head(content.lines))
             n == parse_node_line(v, l)
             rest == parse_subscription_content(v, [lines |-> Tail(content.lines)])
         IN  IF skipped(l) \/ ~has_proxy_scheme(l) \/ n = None
             THEN rest
             ELSE <<with_source(n, "subscription")>> \o rest

\* `for node in local_nodes: node['source'] = 'local'`
local_nodes(v, file) ==
    LET parsed == parse_nodes_file(v, file)
    IN  [k \in 1..Len(parsed) |-> with_source(parsed[k], "local")]

\* `for sub_url in self.subscription_urls`: a failed fetch (None) adds nothing
RECURSIVE subscription_nodes(_, _)
subscription_nodes(v, subs) ==
    IF subs = << >> THEN << >>
    ELSE (IF Head(subs) = None THEN << >>
          ELSE parse_subscription_content(v, Head(subs)))
             \o subscription_nodes(v, Tail(subs))

Originals(l) == {l[k].original : k \in 1..Len(l)}

\* the deduplication loop with a later duplicate replacing the earlier one
RECURSIVE dedup_keep_last(_)
dedup_keep_last(l) ==
    IF l = << >> THEN << >>
    ELSE IF Head(l).original \in Originals(Tail(l))
         THEN dedup_keep_last(Tail(l))
         ELSE <<Head(l)>> \o dedup_keep_last(Tail(l))

\* the deduplication loop with unique_nodes.insert(0, node) for append
RECURSIVE dedup_prepend_from(_, _, _)
dedup_prepend_from(l, unique, seen) ==
    IF l = << >> THEN unique
    ELSE IF Head(l).original \in seen
         THEN dedup_prepend_from(Tail(l), unique, seen)
         ELSE dedup_prepend_from(Tail(l), <<Head(l)>> \o unique,
                                 seen \cup {Head(l).original})
dedup_prepend(l) == dedup_prepend_from(l, << >>, {})

\* `for node in all_nodes: if node_id not in seen: ...` from the locals
\* unique_nodes = unique and seen
RECURSIVE dedup_from(_, _, _)
dedup_from(l, unique, seen) ==
    IF l = << >> THEN unique
    ELSE IF Head(l).original \in seen
         THEN dedup_from(Tail(l), unique, seen)
         ELSE dedup_from(Tail(l), Append(unique, Head(l)),
                         seen \cup {Head(l).original})

\* the deduplication of load_all_nodes
dedup(l) == dedup_from(l, << >>, {})

\* a draw with replacement: any k elements, the same place possibly twice
random_sample_with_replacement(population, k) ==
    {[j \in 1..k |-> population[p[j]]] : p \in [1..k -> 1..Len(population)]}

\* random.sample(population, k): any k elements at distinct places, in any order
random_sample(population, k) ==
    {[j \in 1..k |-> population[p[j]]] :
        p \in {q \in [1..k -> 1..Len(population)] :
                  \A a, b \in 1..k : a # b => q[a] # q[b]}}

\* `self.test_count > 0 and len(unique_nodes) > self.test_count`
sampling(unique, count) == count > 0 /\ Len(unique) > count

\* Lines of the files and payloads in the model: two proxy lines, one of them
\* also with a blank in front, a host:port line (of no grammar in
\* SubscriptionGenerator, and dropped from every subscription) and a comment
\* that would parse as host:port.
LoadLines ==
    { SS \o <<"a">>, <<" ">> \o SS \o <<"a">>, SS \o <<"1">>,
      <<"a", ":", "1">>, <<"#", "a", ":", "1">> }
\* most lines in the nodes file and the subscription payloads together
MaxLines == 3
\* most subscription URLs
MaxSubs == 1
\* test_count when a sample is asked for
MaxTestCount == 2

PayloadSize(p) == IF p = None THEN 0 ELSE Len(p.lines)
PayloadsUpTo(n) == {[lines |-> ls] : ls \in SeqsUpTo(LoadLines, n)} \cup {None}
\* the sequences of at most k payloads with at most n lines together
RECURSIVE PayloadSeqs(_, _)
PayloadSeqs(k, n) ==
    IF k = 0 THEN { << >> }
    ELSE { << >> } \cup
         UNION { {<<p>> \o rest : rest \in PayloadSeqs(k - 1, n - PayloadSize(p))} :
                 p \in PayloadsUpTo(n) }
\* the local file first, then the payload of each subscription URL
Environments(k, n) ==
    UNION { {<<p>> \o rest : rest \in PayloadSeqs(k, n - PayloadSize(p))} :
            p \in PayloadsUpTo(n) }

\* Lines of the nodes file read on its own: two proxy lines, a host:port line
\* (of no grammar in SubscriptionGenerator), two lines of no grammar, a comment
\* and a blank line.
FileLines ==
    { SS \o <<"a">>, SS \o <<"1">>, <<"a", ":", "1">>, <<"a">>, SS, <<"#", "a">>, << >> }
\* most lines of that file
MaxFileLines == 3

\* a nodes file on its own, no subscription
InitFile ==
    /\ nodes_file \in {[lines |-> ls] : ls \in SeqsUpTo(FileLines, MaxFileLines)} \cup {None}
    /\ subscriptions = << >>

InitEnv ==
    \E e \in Environments(MaxSubs, MaxLines) :
        /\ nodes_file = Head(e)
        /\ subscriptions = Tail(e)

IdleEnv ==
    /\ nodes_file = None
    /\ subscriptions = << >>

InitLoad ==
    /\ ld_pc = "call"
    /\ all_nodes = << >>
    /\ unique_nodes = << >>
    /\ nodes = << >>

IdleLoad ==
    /\ IdleEnv
    /\ ld_pc = "idle"
    /\ all_nodes = << >>
    /\ unique_nodes = << >>
    /\ nodes = << >>

\* load_all_nodes: its locals and what it returns
load_all_nodes ==
    LET all == local_nodes(variant, nodes_file)
                   \o subscription_nodes(variant, subscriptions)
        unique == dedup(all)
    IN  /\ all_nodes' = all
        /\ unique_nodes' = unique
        /\ nodes' \in IF sampling(unique, test_count)
                      THEN random_sample(unique, test_count)
                      ELSE {unique}

\* a call of load_all_nodes on its own
LoadAllNodes ==
    /\ ld_pc = "call"
    /\ load_all_nodes
    /\ ld_pc' = "done"
    /\ UNCHANGED <<cfgVars, selVars, probeVars, scoreVars, latVars, parseVars, dedupVars, envVars, schedVars>>

\* Lists the deduplication is applied to: descriptors of the local file
\* followed by descriptors of subscriptions, MaxDedupLen at most.
MaxDedupLen == 3
DedupDescriptors(v, src) ==
    {with_source(parse_node_line(v, l), src) : l \in {SS \o <<"a">>, SS \o <<"1">>}}
DedupLists(v) ==
    {loc \o sub : loc \in SeqsUpTo(DedupDescriptors(v, "local"), MaxDedupLen),
                  sub \in SeqsUpTo(DedupDescriptors(v, "subscription"), MaxDedupLen)}

InitDedup ==
    /\ dd_runs = 0
    /\ dd_list \in {l \in DedupLists(variant) : Len(l) <= MaxDedupLen}
    /\ dd_prev = << >>

IdleDedup ==
    /\ dd_runs = 2
    /\ dd_list = << >>
    /\ dd_prev = << >>

\* the deduplication loop applied to dd_list, twice at most
Deduplicate ==
    /\ dd_runs < 2
    /\ dd_prev' = dd_list
    /\ dd_list' = dedup(dd_list)
    /\ dd_runs' = dd_runs + 1
    /\ UNCHANGED <<cfgVars, selVars, probeVars, scoreVars, latVars, parseVars, envVars, loadVars, schedVars>>

(***************************************************************************)
(* Probe engine: test_latency as a whole, test_download_speed,             *)
(* get_geo_info and test_single_node.  The network is given as the         *)
(* outcomes of the requests, in the order the requests are made.           *)
(***************************************************************************)
\* the outcome of the k-th request of a run; a run given too few outcomes
\* meets RequestException from then on
OutcomeAt(outs, k) == IF k <= Len(outs) THEN outs[k] ELSE RequestException

\* the loop of test_latency from the locals st
RECURSIVE latency_loop(_, _, _, _)
latency_loop(v, thr, st, outs) ==
    IF st.pc # "loop" THEN st
    ELSE latency_loop(v, thr, latency_iteration(v, thr, st, OutcomeAt(outs, st.i)), outs)

\* test_latency(node) for the outcomes outs of its requests: the locals at
\* the end, pc = "raised" when an exception other than RequestException left it
test_latency(v, thr, outs) == latency_loop(v, thr, latency_locals, outs)

\* the download URLs of test_download_speed
speed_test_urls(v) ==
    IF v = "NodeSelector"
    THEN <<"httpbin.org/bytes", "speedtest.ftp.otenet.gr/files/test1Mb.db",
           "proof.ovh.net/files/1Mb.dat">>
    ELSE <<"httpbin.org/bytes", "speedtest.ftp.otenet.gr/files/test100k.db">>

\* the size asked of the byte generator, by latency
file_size(latency) ==
    IF latency < 200 THEN 512000
    ELSE IF latency < 500 THEN 256000
    ELSE 102400

\* What one download can do: deliver data_size bytes at int(speed_kbps) KB/s,
\* raise requests.RequestException (raise_for_status included), or raise
\* something else.
Download(data_size, kbps) == [kind |-> "download", data_size |-> data_size, kbps |-> kbps]

\* a function's way out: a returned value, or an exception passed on
Returned(x, log) == [raised |-> FALSE, value |-> x, log |-> log]
Raised(log) == [raised |-> TRUE, value |-> 0, log |-> log]

\* the loop going on after a download that worked, to return the last measurement
RECURSIVE download_loop_last(_, _, _, _)
download_loop_last(v, outs, i, log) ==
    IF i > Len(speed_test_urls(v)) THEN Returned(0, log)
    ELSE LET o == OutcomeAt(outs, i)
             get == <<"get", i>>
             rest == download_loop_last(v, outs, i + 1, Append(log, get))
         IN  IF o.kind = "Exception" THEN Raised(Append(log, get))
             ELSE IF o.kind = "RequestException" \/ o.data_size = 0 \/ rest.raised THEN rest
             ELSE IF rest.value = 0 THEN Returned(o.kbps, rest.log)
             ELSE rest

\* the loop passing on an error when no URL works
RECURSIVE download_loop_raising(_, _, _, _)
download_loop_raising(v, outs, i, log) ==
    IF i > Len(speed_test_urls(v)) THEN Raised(log)
    ELSE LET o == OutcomeAt(outs, i)
             get == <<"get", i>>
         IN  IF o.kind = "Exception" THEN Raised(Append(log, get))
             ELSE IF o.kind = "RequestException"
             THEN download_loop_raising(v, outs, i + 1, Append(log, get))
             ELSE IF o.data_size > 0
             THEN Returned(o.kbps, Append(log, get))
             ELSE download_loop_raising(v, outs, i + 1,
                                        Append(Append(log, get), <<"sleep", i>>))

\* `for test_url in speed_test_urls` from the i-th URL on
RECURSIVE download_loop(_, _, _, _)
download_loop(v, outs, i, log) ==
    IF i > Len(speed_test_urls(v)) THEN Returned(0, log)
    ELSE LET o == OutcomeAt(outs, i)
             get == <<"get", i>>
         IN  IF o.kind = "Exception" THEN Raised(Append(log, get))
             ELSE IF o.kind = "RequestException"
             THEN download_loop(v, outs, i + 1, Append(log, get))
             ELSE IF o.data_size > 0
             THEN Returned(o.kbps, Append(log, get))
             ELSE download_loop(v, outs, i + 1,
                                Append(Append(log, get), <<"sleep", i>>))

\* test_download_speed(node, latency).  Its log: <<"call", latency>>, then the
\* requests and pauses of the loop, then <<"return", value>> unless it raised.
test_download_speed(v, latency, outs) ==
    LET call == << <<"call", latency>> >>
        r == IF v = "SubscriptionGenerator" /\ latency >= 1000
             THEN Returned(0, call)
             ELSE download_loop(v, outs, 1, call)
    IN  IF r.raised THEN r ELSE Returned(r.value, Append(r.log, <<"return", r.value>>))

UnknownGeo == [country |-> "Unknown", city |-> "Unknown", isp |-> "Unknown", ip |-> "Unknown"]
GeoFound(g) == [kind |-> "geo", geo |-> g]

\* get_geo_info(): NodeSelector catches requests.RequestException only,
\* SubscriptionGenerator catches everything
get_geo_info(v, o) ==
    IF o.kind = "geo" THEN Returned(o.geo, << >>)
    ELSE IF o.kind = "RequestException" \/ v = "SubscriptionGenerator"
    THEN Returned(UnknownGeo, << >>)
    ELSE Raised(<< >>)

\* result['latency'] = 'Timeout'
Timeout == [text |-> "Timeout"]
\* result['speed']: 'Not Tested', 'Failed', f"{speed} KB/s" (NodeSelector) or
\* the number itself (SubscriptionGenerator)
NotTested == [text |-> "Not Tested", kbps |-> 0]
Failed == [text |-> "Failed", kbps |-> 0]
SpeedText(v, speed) ==
    IF v = "SubscriptionGenerator" THEN [text |-> "", kbps |-> speed]
    ELSE IF speed > 0 THEN [text |-> "KB/s", kbps |-> speed]
    ELSE Failed

\* What the network and the console do to one call of test_single_node.
ProbeInput(print_raises, gets, geo, downloads) ==
    [print_raises |-> print_raises, gets |-> gets, geo |-> geo, downloads |-> downloads]

\* the speed test guarded by the latency of the first attempt instead of the
\* winning one
speed_step_first_attempt(v, thr, latency_test, downloads) ==
    IF latency_test.test_results # << >> /\ latency_test.test_results[1].latency < thr
    THEN test_download_speed(v, latency_test.test_results[1].latency, downloads)
    ELSE Returned(0, << >>)

\* The speed test of test_single_node: none when the latency test did not pass
\* (`if not latency_test['passed']: ... return`), else
\* `speed = 0; if latency < self.latency_threshold: speed = self.test_download_speed(...)`
speed_step(v, thr, latency_test, downloads) ==
    IF latency_test.fastest_success # None /\ latency_test.fastest_success.latency < thr
    THEN test_download_speed(v, latency_test.fastest_success.latency, downloads)
    ELSE Returned(0, << >>)

\* test_single_node(node, index, total_count) under the input p.  The result
\* dict without its timestamp; None as test_single_node returns it; Raised
\* when an exception leaves the function, which only the statements before
\* its try block (the prints) can cause.  The log is that of the speed test.
test_single_node(v, thr, n, p) ==
    LET latency_test == test_latency(v, thr, p.gets)
        fastest == latency_test.fastest_success
        latency == fastest.latency
        geo_info == get_geo_info(v, p.geo)
        speed_test == speed_step(v, thr, latency_test, p.downloads)
        speed == speed_test.value
        score == calculate_score(v, latency, speed, fastest.success)
    IN  IF p.print_raises THEN Raised(<< >>)
        ELSE IF latency_test.pc = "raised" THEN Returned(None, << >>)
        ELSE IF fastest = None
        THEN IF v = "NodeSelector"
             THEN Returned([node |-> n.original, type |-> n.type,
                            latency |-> Timeout, speed |-> NotTested,
                            country |-> "Unknown", city |-> "Unknown",
                            isp |-> "Unknown", ip |-> "Unknown",
                            score |-> 0, success |-> FALSE, test_url |-> "None",
                            skipped_speed_test |-> TRUE, source |-> n.source],
                           speed_test.log)
             ELSE Returned(None, speed_test.log)
        ELSE IF geo_info.raised THEN Returned(None, << >>)
        ELSE IF speed_test.raised THEN Returned(None, speed_test.log)
        ELSE IF v = "NodeSelector"
        THEN Returned([node |-> n.original, type |-> n.type,
                       latency |-> latency, speed |-> SpeedText(v, speed),
                       country |-> geo_info.value.country,
                       city |-> geo_info.value.city,
                       isp |-> geo_info.value.isp, ip |-> geo_info.value.ip,
                       score |-> score, success |-> fastest.success,
                       test_url |-> fastest.url,
                       skipped_speed_test |-> FALSE, source |-> n.source],
                      speed_test.log)
        ELSE Returned([node |-> n.original, type |-> n.type,
                       latency |-> latency, speed |-> SpeedText(v, speed),
                       country |-> geo_info.value.country,
                       isp |-> geo_info.value.isp,
                       score |-> score, success |-> fastest.success,
                       source |-> n.source],
                      speed_test.log)

(***************************************************************************)
(* Scheduler: run_tests.  The main thread loads the descriptors, submits   *)
(* one probe per descriptor to a ThreadPoolExecutor(max_workers), takes    *)
(* the futures as as_completed yields them, then sorts self.results.       *)
(* The pool starts a worker thread per submission while it has fewer than  *)
(* max_workers, and its workers take the probes in submission order.       *)
(***************************************************************************)
NewFuture == [state |-> "new", input |-> None, outcome |-> None]

InFlight == {i \in DOMAIN fut : fut[i].state = "running"}
Awaiting == {i \in DOMAIN fut : fut[i].state = "pending"}

\* a pool that starts a thread for every submission
pool_threads_unbounded(n, limit) == n + 1

\* a pool that starts its first thread only at the second submission it could
\* start one for
pool_threads_late(n, limit) == IF n + 1 < limit THEN n + 1 ELSE n

\* ThreadPoolExecutor: the thread count after a submission
pool_threads(n, limit) == IF n < limit THEN n + 1 ELSE n

\* the collection step replacing the list instead of appending to it
collect_result_overwrite(res, o) ==
    IF o.raised \/ o.value = None THEN res ELSE <<o.value>>

\* `result = future.result(); if result: self.results.append(result)`, the
\* exception of the future caught by `except Exception`
collect_result(res, o) ==
    IF o.raised \/ o.value = None THEN res ELSE Append(res, o.value)

\* `if result['speed'] not in ['Not Tested', 'Failed']`
speed_was_tested(result) == result.speed.text \notin {"Not Tested", "Failed"}

\* the insertion step putting a result before the results of equal score
RECURSIVE insert_before_equal(_, _)
insert_before_equal(sorted, r) ==
    IF sorted = << >> THEN <<r>>
    ELSE IF Head(sorted).score > r.score
    THEN <<Head(sorted)>> \o insert_before_equal(Tail(sorted), r)
    ELSE <<r>> \o sorted

\* list.sort(key=score, reverse=True): stable, equal scores keep their order
RECURSIVE insert_by_score(_, _)
insert_by_score(sorted, r) ==
    IF sorted = << >> THEN <<r>>
    ELSE IF Head(sorted).score >= r.score
    THEN <<Head(sorted)>> \o insert_by_score(Tail(sorted), r)
    ELSE <<r>> \o sorted
RECURSIVE sort_by_score_from(_, _)
sort_by_score_from(sorted, l) ==
    IF l = << >> THEN sorted
    ELSE sort_by_score_from(insert_by_score(sorted, Head(l)), Tail(l))
sort_by_score(l) == sort_by_score_from(<< >>, l)

\* Files of the scheduler runs: the first k of the lines ss://a, ss://aa, ...
\* for k up to MaxNodes, and at most one subscription, which repeats the first
\* line and is given with the files of one line at most.
MaxNodes == 3
\* largest max_workers
MaxWorkers == 2
RECURSIVE Repeat(_, _)
Repeat(c, k) == IF k = 0 THEN << >> ELSE <<c>> \o Repeat(c, k - 1)
NodeLine(k) == SS \o Repeat("a", k)
SchedFiles == {[lines |-> [j \in 1..k |-> NodeLine(j)]] : k \in 0..MaxNodes}
SchedSubscriptions == { << >>, << [lines |-> <<NodeLine(1)>>] >> }

\* What happens to the probes of the scheduler runs: no endpoint answers; the
\* first answers in 80 ms and a download gives 6000 KB/s; the first answers
\* and no download works; a request raises an unexpected exception; the
\* console raises before the try block.
SampleGeo == [country |-> "US", city |-> "Ashburn", isp |-> "ISP", ip |-> "192.0.2.1"]
ProbeInputs ==
    { ProbeInput(FALSE, << >>, RequestException, << >>),
      ProbeInput(FALSE, <<Response(80, 204)>>, GeoFound(SampleGeo), <<Download(512000, 6000)>>),
      ProbeInput(FALSE, <<Response(80, 204)>>, RequestException, << >>),
      ProbeInput(FALSE, <<OtherException>>, RequestException, << >>),
      ProbeInput(TRUE, << >>, RequestException, << >>) }

InitSched ==
    /\ rt_pc = "start"
    /\ submitted = 0
    /\ threads = 0
    /\ fut = << >>
    /\ snap = {}
    /\ done_q = << >>
    /\ completion_order = << >>
    /\ started = << >>
    /\ lock = "free"
    /\ results = << >>
    /\ passed_count = 0
    /\ speed_tested_count = 0

IdleSched ==
    /\ rt_pc = "idle"
    /\ submitted = 0
    /\ threads = 0
    /\ fut = << >>
    /\ snap = {}
    /\ done_q = << >>
    /\ completion_order = << >>
    /\ started = << >>
    /\ lock = "free"
    /\ results = << >>
    /\ passed_count = 0
    /\ speed_tested_count = 0

\* [r for r in l if keep(r)]
Filter(l, keep(_)) == SelectSeq(l, keep)

\* l[:n]
Take(l, n) == SubSeq(l, 1, IF Len(l) < n THEN Len(l) ELSE n)

\* the literal of `[...][:20]` in save_test_results
PreferredLimit == 20

\* `r['score'] > 0`
has_score(r) == r.score > 0

\* `[r for r in self.results if r['score'] > 0][:20]`
preferred(res) == Take(Filter(res, has_score), PreferredLimit)

\* save_test_results: what json.dump writes to self.results_file, without
\* the timestamp, the test configuration and 'preferred_nodes', which is kept
\* in the variable preferred_nodes; subscription_urls by its length
save_test_results(res, passed, speed_tested, total, subs) ==
    [total_tested |-> total, passed_latency_test |-> passed,
     speed_tested |-> speed_tested, all_results |-> res,
     subscription_urls |-> Len(subs)]

\* what run_tests prints when load_all_nodes returns no descriptor
NoNodesReport == <<"no nodes to test">>

\* where main is once run_tests has returned: NodeSelector calls
\* generate_preferred_node_file, SubscriptionGenerator generate_neko_subscription
after_run_tests(v) == IF v = "NodeSelector" THEN "saved" ELSE "ranked"

\* run_tests up to the pool: load_all_nodes, return if there is nothing to test
RunTestsLoad ==
    /\ rt_pc = "start"
    /\ load_all_nodes
    /\ ld_pc' = "done"
    /\ rt_pc' = IF nodes' = << >> THEN "returned" ELSE "submit"
    /\ fut' = [i \in 1..Len(nodes') |-> NewFuture]
    /\ reported' = IF nodes' = << >> THEN reported \o NoNodesReport ELSE reported
    /\ se_pc' = IF nodes' = << >> THEN after_run_tests(variant) ELSE se_pc
    /\ UNCHANGED <<cfgVars, probeVars, scoreVars, latVars, parseVars, dedupVars, envVars,
                   submitted, threads, snap, done_q, completion_order, started, lock,
                   results, passed_count, speed_tested_count,
                   preferred_nodes, valid_nodes, results_file, output>>

\* executor.submit(self.test_single_node, node, i, len(nodes)) for the next node
Submit ==
    /\ rt_pc = "submit"
    /\ submitted < Len(nodes)
    /\ submitted' = submitted + 1
    /\ fut' = [fut EXCEPT ![submitted + 1].state = "pending"]
    /\ threads' = pool_threads(threads, max_workers)
    /\ UNCHANGED <<cfgVars, selVars, probeVars, scoreVars, latVars, parseVars, dedupVars, envVars, loadVars,
                   rt_pc, snap, done_q, completion_order, started, lock, results,
                   passed_count, speed_tested_count>>

\* concurrent.futures.as_completed(future_to_node) is called: the futures
\* already finished will be yielded first, in no particular order
AsCompleted ==
    /\ rt_pc = "submit"
    /\ submitted = Len(nodes)
    /\ snap' = {i \in DOMAIN fut : fut[i].state = "finished"}
    /\ rt_pc' = "collect"
    /\ UNCHANGED <<cfgVars, selVars, probeVars, scoreVars, latVars, parseVars, dedupVars, envVars, loadVars,
                   submitted, threads, fut, done_q, completion_order, started, lock,
                   results, passed_count, speed_tested_count>>

\* a free worker thread takes the oldest waiting probe and calls test_single_node
ProbeStart ==
    /\ Awaiting # {}
    /\ Cardinality(InFlight) < threads
    /\ LET i == CHOOSE j \in Awaiting : \A k \in Awaiting : j <= k
       IN  /\ fut' = [fut EXCEPT ![i].state = "running"]
           /\ started' = Append(started, i)
    /\ UNCHANGED <<cfgVars, selVars, probeVars, scoreVars, latVars, parseVars, dedupVars, envVars, loadVars,
                   rt_pc, submitted, threads, snap, done_q, completion_order, lock,
                   results, passed_count, speed_tested_count>>

\* test_single_node ends for a running probe: its future is finished.  The
\* worker touches neither self.results nor the counters nor self.lock.
ProbeFinish ==
    /\ \E i \in InFlight, p \in ProbeInputs :
           /\ fut' = [fut EXCEPT ![i] =
                         [state |-> "finished", input |-> p,
                          outcome |-> test_single_node(variant, latency_threshold,
                                                       nodes[i], p)]]
           /\ done_q' = IF rt_pc = "collect" THEN Append(done_q, i) ELSE done_q
           /\ completion_order' = Append(completion_order, i)
    /\ UNCHANGED <<cfgVars, selVars, probeVars, scoreVars, latVars, parseVars, dedupVars, envVars, loadVars,
                   rt_pc, submitted, threads, snap, started, lock, results, passed_count,
                   speed_tested_count>>

\* the body of the loop entering the update without taking self.lock
acquire_nothing(holder, thread) == holder

\* `with self.lock:` entered by thread, which had to find the lock free
acquire(holder, thread) == thread

\* the scheduler submitting again the probe whose future raised
after_result_retry(o) ==
    IF o.raised THEN "pending"
    ELSE IF o.value = None THEN "collected"
    ELSE "yielded"

\* What run_tests does with a future once it has its outcome: `if result:`
\* leads to the update under the lock ("yielded"); an exception is printed by
\* `except Exception` and a None is passed over, and the future is not looked
\* at again ("collected")
after_result(o) == IF o.raised \/ o.value = None THEN "collected" ELSE "yielded"

\* the future whose result the main thread is about to append, if any
Yielded == {i \in DOMAIN fut : fut[i].state = "yielded"}

\* one turn of `for future in as_completed(...)` up to `with self.lock`:
\* the main thread takes the future yielded and its result, and enters the
\* lock if there is a result
Collect ==
    /\ rt_pc = "collect"
    /\ Yielded = {}
    /\ \E i \in (IF snap # {} THEN snap
                 ELSE IF done_q # << >> THEN {Head(done_q)} ELSE {}) :
           /\ fut' = [fut EXCEPT ![i].state = after_result(fut[i].outcome)]
           /\ after_result(fut[i].outcome) = "yielded" => lock = "free"
           /\ lock' = IF after_result(fut[i].outcome) = "yielded"
                      THEN acquire(lock, "main")
                      ELSE lock
           /\ snap' = snap \ {i}
           /\ done_q' = IF snap # {} THEN done_q ELSE Tail(done_q)
    /\ UNCHANGED <<cfgVars, selVars, probeVars, scoreVars, latVars, parseVars, dedupVars, envVars, loadVars,
                   rt_pc, submitted, threads, completion_order, started, results,
                   passed_count, speed_tested_count>>

\* the counter counting every result
passed_after_every(count, result) == count + 1

\* `if result['success']: passed_count += 1`
passed_after(count, result) == IF result.success THEN count + 1 ELSE count

\* `if result['speed'] not in ['Not Tested', 'Failed']: speed_tested_count += 1`
\* under `if result['success']`; SubscriptionGenerator has no such counter
speed_tested_after(v, count, result) ==
    IF v = "NodeSelector" /\ result.success /\ speed_was_tested(result)
    THEN count + 1
    ELSE count

\* the block under `with self.lock`: the append and the counters, then the
\* lock is released
Update ==
    /\ rt_pc = "collect"
    /\ \E i \in Yielded :
           LET o == fut[i].outcome
           IN  /\ results' = collect_result(results, o)
               /\ passed_count' = passed_after(passed_count, o.value)
               /\ speed_tested_count' =
                      speed_tested_after(variant, speed_tested_count, o.value)
               /\ fut' = [fut EXCEPT ![i].state = "collected"]
               /\ lock' = "free"
    /\ UNCHANGED <<cfgVars, selVars, probeVars, scoreVars, latVars, parseVars, dedupVars, envVars, loadVars,
                   rt_pc, submitted, threads, snap, done_q, completion_order, started>>

\* every future has been yielded: the pool is shut down, self.results is
\* sorted by score, NodeSelector saves the results file, and run_tests returns
RunTestsFinish ==
    /\ rt_pc = "collect"
    /\ \A i \in DOMAIN fut : fut[i].state = "collected"
    /\ results' = sort_by_score(results)
    /\ rt_pc' = "done"
    /\ se_pc' = after_run_tests(variant)
    /\ IF variant = "NodeSelector"
       THEN /\ preferred_nodes' = preferred(results')
            /\ results_file' = save_test_results(results', passed_count,
                                                 speed_tested_count, Len(nodes),
                                                 subscriptions)
       ELSE UNCHANGED <<preferred_nodes, results_file>>
    /\ UNCHANGED <<cfgVars, probeVars, scoreVars, latVars, parseVars, dedupVars, envVars, loadVars,
                   submitted, threads, fut, snap, done_q, completion_order, started, lock,
                   passed_count, speed_tested_count, valid_nodes, output, reported>>

\* The calls of test_single_node taken on their own.  Requests of the latency
\* test: a failure, an unexpected exception, an answer in less than 1 ms
\* (measured as 0), in 80 ms, 150 ms (with either status) or 1500 ms.  Downloads: a failure, an unexpected exception,
\* an empty body, 512000 bytes at 6000 KB/s, 100 bytes at less than 1 KB/s.
ProbeGets ==
    {RequestException, OtherException, Response(0, 204), Response(80, 204),
     Response(150, 200), Response(150, 204), Response(1500, 204)}
ProbeDownloads ==
    {RequestException, OtherException, Download(0, 0), Download(512000, 6000),
     Download(100, 0)}
ProbeGeos == {GeoFound(SampleGeo), RequestException, OtherException}
\* most requests of the latency test and most downloads given an outcome
MaxGets == 2
MaxDownloads == 3
\* every latency test and geo lookup with at most one download given; every
\* speed test after a latency test that passes at 80 ms or at 1500 ms; a
\* console that fails
ProbeCases(g, d) ==
    {ProbeInput(FALSE, gets, geo, downloads) :
        gets \in SeqsUpTo(ProbeGets, g), geo \in ProbeGeos,
        downloads \in SeqsUpTo(ProbeDownloads, 1)}
    \cup {ProbeInput(FALSE, <<get>>, GeoFound(SampleGeo), downloads) :
             get \in {Response(80, 204), Response(1500, 204)},
             downloads \in SeqsUpTo(ProbeDownloads, d)}
    \cup {ProbeInput(TRUE, << >>, RequestException, << >>)}
\* the descriptor probed
ProbeNode(v) == with_source(parse_node_line(v, NodeLine(1)), "local")

InitProbe ==
    /\ pb_pc = "call"
    /\ pb_input \in ProbeCases(MaxGets, MaxDownloads)
    /\ pb_out = None

IdleProbe ==
    /\ pb_pc = "idle"
    /\ pb_input = None
    /\ pb_out = None

\* a call of test_single_node on its own
TestSingleNode ==
    /\ pb_pc = "call"
    /\ pb_out' = test_single_node(variant, latency_threshold, ProbeNode(variant), pb_input)
    /\ pb_pc' = "done"
    /\ UNCHANGED <<cfgVars, scoreVars, latVars, parseVars, dedupVars, envVars, loadVars,
                   schedVars, selVars, pb_input>>

(***************************************************************************)
(* Ranker / selector: what goes into the artifact.  NodeSelector:          *)
(* save_test_results writes 'preferred_nodes' to the results file and      *)
(* generate_preferred_node_file reads it back.  SubscriptionGenerator:     *)
(* generate_neko_subscription takes self.results.                          *)
(***************************************************************************)
\* `node['speed'] not in ['Not Tested', 'Failed'] and node['score'] > 0`
is_valid_node(r) == speed_was_tested(r) /\ r.score > 0

\* `result['success'] and result['score'] > 30 and result.get('speed', 0) > 100`
is_quality_node(r) == r.success /\ r.score > 300 /\ r.speed.kbps > 100

\* valid_nodes of generate_neko_subscription: filter, then `[:self.top_n]`
neko_selection(res, n) == Take(Filter(res, is_quality_node), n)

\* Ranked results given to the selection: what test_single_node returns for a
\* probe that answers in 80 ms and downloads at 6000 KB/s, one that answers in
\* 80 ms and whose downloads all fail, one that answers in 600 ms and
\* downloads at 150 KB/s, and one that no endpoint answers; some number of
\* each, for descriptors ss://a, ss://aa, ..., sorted as run_tests sorts.
SelectProbes ==
    << ProbeInput(FALSE, <<Response(80, 204)>>, GeoFound(SampleGeo), <<Download(512000, 6000)>>),
       ProbeInput(FALSE, <<Response(80, 204)>>, GeoFound(SampleGeo), << >>),
       ProbeInput(FALSE, <<Response(600, 204)>>, GeoFound(SampleGeo), <<Download(102400, 150)>>),
       ProbeInput(FALSE, << >>, RequestException, << >>) >>
\* most results
MaxResults == 22
\* --top-n when set low
LowTopN == 2
\* how many probes of each kind: the tuples of Len(SelectProbes) counts with
\* sum n at most
RECURSIVE CountsUpTo(_, _)
CountsUpTo(kinds, n) ==
    IF kinds = 0 THEN { << >> }
    ELSE UNION { {<<c>> \o rest : rest \in CountsUpTo(kinds - 1, n - c)} : c \in 0..n }
\* most probes of a kind, but for one kind
MaxFew == 2
\* the counts given: any number of probes of one kind, few of the others
SelectCounts(n) ==
    {c \in CountsUpTo(Len(SelectProbes), n) :
        Cardinality({j \in 1..Len(c) : c[j] > MaxFew}) <= 1}
\* the kind of the k-th probe under the counts c
RECURSIVE KindAt(_, _, _)
KindAt(c, k, j) == IF k <= c[j] THEN j ELSE KindAt(c, k - c[j], j + 1)
\* self.results after run_tests for the counts c: the result of the k-th probe
\* is that of a probe of its kind, for the descriptor ss://a...a of k letters
RankedResults(v, thr, c) ==
    LET total == c[1] + c[2] + c[3] + c[4]
        descriptor == with_source(parse_node_line(v, NodeLine(1)), "local")
        of_kind == [j \in 1..Len(SelectProbes) |->
                       test_single_node(v, thr, descriptor, SelectProbes[j]).value]
        RECURSIVE appended(_)
        appended(k) ==
            IF k > total THEN << >>
            ELSE LET result == of_kind[KindAt(c, k, 1)]
                 IN  (IF result = None THEN << >>
                      ELSE <<[result EXCEPT !.node = NodeLine(k)]>>) \o appended(k + 1)
    IN  sort_by_score(appended(1))

\* A line of the text artifact is a sequence of words; a comment line starts
\* with "#", the raw line of a node is its descriptor line, character by
\* character, and a blank line is empty.
Comment(words) == <<"#">> \o words
Blank == << >>

RECURSIVE Concat(_)
Concat(ls) == IF ls = << >> THEN << >> ELSE Head(ls) \o Concat(Tail(ls))

\* f"{node['latency']}" of a result of NodeSelector: 'Timeout' for a result
\* of a failed latency test, which is the one with success False
latency_text(r) == IF r.success THEN ToString(r.latency) ELSE r.latency.text

\* the header of the artifact of NodeSelector, with the block of the
\* subscription URLs and the heading of the recommended nodes
preferred_header(test_data) ==
    << Comment(<<"Preferred Nodes">>),
       Comment(<<"Generated">>),
       Comment(<<"Total nodes tested", ToString(test_data.total_tested)>>),
       Comment(<<"Passed latency test", ToString(test_data.passed_latency_test)>>),
       Comment(<<"Speed tested", ToString(test_data.speed_tested)>>),
       Comment(<<"Success rate">>),
       Comment(<<"Workers">>),
       Comment(<<"Timeout">>),
       Blank >>
    \o (IF test_data.subscription_urls > 0
        THEN <<Comment(<<"Online Subscriptions", ToString(test_data.subscription_urls)>>)>>
                 \o [k \in 1..test_data.subscription_urls |-> Comment(<<"url", ToString(k)>>)]
                 \o <<Blank>>
        ELSE << >>)
    \o << Comment(<<"Top Recommended Nodes">>),
          Comment(<<"Format">>),
          Comment(<<"Score | Latency | Speed | Location | ISP | Source">>),
          Blank >>

\* the comment written before the raw line of the i-th recommended node
recommended_annotation(i, r) ==
    Comment(<<IF r.success THEN "ok" ELSE "warn", ToString(i), ".", ToString(r.score),
              "|", latency_text(r), "|", ToString(r.speed.kbps), "|", r.country, "|",
              r.isp, "|", r.source>>)

\* the recommended nodes written without their comments
recommended_lines_bare(valid) ==
    Concat([i \in 1..Len(valid) |-> <<valid[i].node, Blank>>])

\* `for i, node in enumerate(valid_nodes)`: comment, raw line, blank line
recommended_lines(valid) ==
    Concat([i \in 1..Len(valid) |->
               <<recommended_annotation(i, valid[i]), valid[i].node, Blank>>])

\* the comment written before the raw line of the i-th tested node
tested_annotation(i, r) ==
    Comment(<<IF r.success THEN "ok" ELSE "failed", ToString(i), ".", ToString(r.score),
              latency_text(r), r.speed.text, r.country, "[", r.source, "]">>)

\* `for i, node in enumerate(test_data['all_results'])`: comment, raw line,
\* and a blank line after every tenth node
tested_lines(all) ==
    Concat([i \in 1..Len(all) |->
               <<tested_annotation(i, all[i]), all[i].node>>
                   \o (IF i % 10 = 0 THEN <<Blank>> ELSE << >>)])

\* the heading of the section of all tested nodes; the source has
\* `{len(test_data['all_results']}` there, read as len(test_data['all_results'])
tested_heading(all) ==
    << Comment(<<"All Tested Nodes">>), Comment(<<"Total", ToString(Len(all)), "nodes">>),
       Blank >>

\* the statistics at the end of the artifact
statistics_lines(test_data) ==
    << Blank,
       Comment(<<"Statistics">>),
       Comment(<<"Successful nodes", ToString(test_data.passed_latency_test)>>),
       Comment(<<"Speed tested nodes", ToString(test_data.speed_tested)>>),
       Comment(<<"Average score">>) >>
    \o (IF \E k \in 1..Len(test_data.all_results) : test_data.all_results[k].success
        THEN <<Comment(<<"Best latency">>), Comment(<<"Average latency">>)>>
        ELSE << >>)

\* how the body of a generator ends: with an exception, or with the artifact
\* written (lines) or not (None); valid is its local valid_nodes, said is
\* what it printed
Generated(valid, lines, said) ==
    [raised |-> FALSE, valid_nodes |-> valid, output |-> lines, reported |-> said]
GeneratorRaised(valid) ==
    [raised |-> TRUE, valid_nodes |-> valid, output |-> None, reported |-> << >>]

\* The try block of generate_preferred_node_file.  It raises when the results
\* file cannot be opened, when total_tested is 0 (the success rate) and when
\* all_results is empty (the average score).
preferred_node_file_body(test_data, preferred_list) ==
    IF test_data = None THEN GeneratorRaised(<< >>)
    ELSE IF test_data.total_tested = 0 THEN GeneratorRaised(<< >>)
    ELSE LET valid == Filter(preferred_list, is_valid_node)
         IN  IF test_data.all_results = << >> THEN GeneratorRaised(valid)
             ELSE Generated(valid,
                            preferred_header(test_data)
                                \o recommended_lines(valid)
                                \o (IF valid = << >>
                                    THEN <<Comment(<<"no qualified node">>), Blank>>
                                    ELSE << >>)
                                \o tested_heading(test_data.all_results)
                                \o tested_lines(test_data.all_results)
                                \o statistics_lines(test_data),
                            <<"file generated">>)

\* generate_preferred_node_file with its handler left out
generate_preferred_node_file_uncaught(test_data, preferred_list) ==
    preferred_node_file_body(test_data, preferred_list)

\* generate_preferred_node_file: the try block under `except Exception`, which
\* prints the failure
generate_preferred_node_file(test_data, preferred_list) ==
    LET r == preferred_node_file_body(test_data, preferred_list)
    IN  IF r.raised THEN Generated(r.valid_nodes, None, <<"file generation failed">>)
        ELSE r

\* the comment written before the raw line of the i-th node of the subscription
subscription_annotation(i, r) ==
    Comment(<<ToString(i), ".", r.country, "|", ToString(r.latency), "|",
              ToString(r.speed.kbps), "|", ToString(r.score)>>)

\* _create_subscription_content(nodes): the header, then comment, raw line
\* and blank line for each node
create_subscription_content(selected) ==
    << Comment(<<"NekoBox/FlClash">>), Comment(<<"time">>),
       Comment(<<"count", ToString(Len(selected))>>), Comment(<<"average latency">>),
       Comment(<<"average speed">>), Comment(<<"average score">>), Blank >>
    \o Concat([i \in 1..Len(selected) |->
                  <<subscription_annotation(i, selected[i]), selected[i].node, Blank>>])

\* generate_neko_subscription: None is returned, and main prints that the
\* generation failed, when no node qualifies; else subscription_decoded.txt
\* gets the subscription content, whose averages divide by the number of
\* nodes left by `[:self.top_n]`
generate_neko_subscription(res, n) ==
    IF Filter(res, is_quality_node) = << >>
    THEN Generated(<< >>, None, <<"no qualified node", "subscription failed">>)
    ELSE IF neko_selection(res, n) = << >>
    THEN GeneratorRaised(<< >>)
    ELSE Generated(neko_selection(res, n),
                   create_subscription_content(neko_selection(res, n)),
                   <<"subscription generated">>)

\* the descriptors tested for the counts c
SelectNodes(v, c) ==
    [k \in 1..(c[1] + c[2] + c[3] + c[4]) |->
        with_source(parse_node_line(v, NodeLine(k)), "local")]

InitSelect ==
    /\ se_pc = "ranked"
    /\ preferred_nodes = << >>
    /\ valid_nodes = << >>
    /\ results_file = None
    /\ output = None
    /\ reported = << >>

IdleSelect ==
    /\ se_pc = "idle"
    /\ preferred_nodes = << >>
    /\ valid_nodes = << >>
    /\ results_file = None
    /\ output = None
    /\ reported = << >>

\* save_test_results on its own, for the results of a run of NodeSelector
SaveTestResults ==
    /\ variant = "NodeSelector"
    /\ se_pc = "ranked"
    /\ preferred_nodes' = preferred(results)
    /\ results_file' = save_test_results(results, passed_count, speed_tested_count,
                                         Len(nodes), subscriptions)
    /\ se_pc' = "saved"
    /\ UNCHANGED <<cfgVars, probeVars, scoreVars, latVars, parseVars, dedupVars, envVars, loadVars,
                   schedVars, valid_nodes, output, reported>>

\* main of NodeSelector calls generate_preferred_node_file
GeneratePreferredNodeFile ==
    /\ variant = "NodeSelector"
    /\ se_pc = "saved"
    /\ LET r == generate_preferred_node_file(results_file, preferred_nodes)
       IN  /\ valid_nodes' = r.valid_nodes
           /\ output' = r.output
           /\ reported' = reported \o r.reported
           /\ se_pc' = IF r.raised THEN "aborted" ELSE "done"
    /\ UNCHANGED <<cfgVars, probeVars, scoreVars, latVars, parseVars, dedupVars, envVars, loadVars,
                   schedVars, preferred_nodes, results_file>>

\* main of SubscriptionGenerator calls generate_neko_subscription
GenerateNekoSubscription ==
    /\ variant = "SubscriptionGenerator"
    /\ se_pc = "ranked"
    /\ LET r == generate_neko_subscription(results, top_n)
       IN  /\ valid_nodes' = r.valid_nodes
           /\ output' = r.output
           /\ reported' = reported \o r.reported
           /\ se_pc' = IF r.raised THEN "aborted" ELSE "done"
    /\ UNCHANGED <<cfgVars, probeVars, scoreVars, latVars, parseVars, dedupVars, envVars, loadVars,
                   schedVars, preferred_nodes, results_file>>

(***************************************************************************)
(* Specifications.  Each takes one part of the pipeline from its inputs;   *)
(* the parts it does not run stay idle.                                    *)
(***************************************************************************)
InitSpecParse ==
    InitCfgDefault /\ IdleScore /\ IdleLatency /\ InitParse /\ IdleDedup /\ IdleLoad
        /\ IdleSched /\ IdleSelect /\ IdleProbe
NextParse == ParseNodeLine
SpecParse == InitSpecParse /\ [][NextParse]_vars

Init ==
    /\ variant \in Variants
    /\ latency_threshold = DefaultLatencyThreshold(variant)
    /\ max_workers \in {1, MaxWorkers}
    /\ test_count = DefaultTestCount
    /\ InitTopN
    /\ IdleScore /\ IdleLatency /\ IdleParse /\ IdleDedup
    /\ nodes_file \in SchedFiles
    /\ subscriptions \in SchedSubscriptions
    /\ subscriptions # << >> => Len(nodes_file.lines) <= 1
    /\ InitLoad
    /\ InitSched
    /\ IdleSelect /\ IdleProbe
Next ==
    \/ RunTestsLoad
    \/ Submit
    \/ AsCompleted
    \/ ProbeStart
    \/ ProbeFinish
    \/ Collect
    \/ Update
    \/ RunTestsFinish
    \/ GeneratePreferredNodeFile
    \/ GenerateNekoSubscription
Spec == Init /\ [][Next]_vars

\* Whole runs of main, errors of every kind included.  The nodes file is
\* unreadable, empty, holds only a line of no grammar, holds such a line before
\* a descriptor, or holds the first k descriptors for k up to LiveNodes; the
\* subscription, given with the unreadable file and with the file of one
\* descriptor, cannot be fetched.
LiveNodes == 2
UnparsableLine == <<"a">>
LiveEnvironments ==
    {<<None, << >> >>, <<None, <<None>> >>,
     <<[lines |-> <<UnparsableLine>>], << >> >>,
     <<[lines |-> <<UnparsableLine, NodeLine(1)>>], << >> >>,
     <<[lines |-> <<NodeLine(1)>>], <<None>> >>}
        \cup {<<[lines |-> [j \in 1..k |-> NodeLine(j)]], << >> >> : k \in 0..LiveNodes}

InitLive ==
    /\ variant \in Variants
    /\ latency_threshold = DefaultLatencyThreshold(variant)
    /\ max_workers \in {1, MaxWorkers}
    /\ test_count = DefaultTestCount
    /\ InitTopN
    /\ IdleScore /\ IdleLatency /\ IdleParse /\ IdleDedup
    /\ \E e \in LiveEnvironments : nodes_file = e[1] /\ subscriptions = e[2]
    /\ InitLoad
    /\ InitSched
    /\ IdleSelect /\ IdleProbe

\* Some thread that has a step to take takes one: the main thread goes on
\* while it can, an idle worker of the pool takes the work that waits, and
\* test_single_node returns, every request it makes having a timeout.
SpecLive ==
    /\ InitLive
    /\ [][Next]_vars
    /\ WF_vars(Next)

InitSpecDedup ==
    InitCfgDefault /\ IdleScore /\ IdleLatency /\ IdleParse /\ InitDedup /\ IdleLoad
        /\ IdleSched /\ IdleSelect /\ IdleProbe
NextDedup == Deduplicate
SpecDedup == InitSpecDedup /\ [][NextDedup]_vars

InitSpecLoad ==
    /\ variant \in Variants
    /\ latency_threshold = DefaultLatencyThreshold(variant)
    /\ max_workers = DefaultWorkers
    /\ test_count \in {DefaultTestCount, MaxTestCount}
    /\ InitTopN
    /\ IdleScore /\ IdleLatency /\ IdleParse /\ IdleDedup
    /\ InitEnv /\ InitLoad /\ IdleSched /\ IdleSelect /\ IdleProbe
NextLoad == LoadAllNodes
SpecLoad == InitSpecLoad /\ [][NextLoad]_vars

InitSpecFile ==
    /\ InitCfgDefault
    /\ IdleScore /\ IdleLatency /\ IdleParse /\ IdleDedup
    /\ InitFile /\ InitLoad /\ IdleSched /\ IdleSelect /\ IdleProbe
SpecFile == InitSpecFile /\ [][NextLoad]_vars

InitSpecLatency ==
    /\ variant \in Variants
    /\ latency_threshold \in ThresholdSamples(variant)
    /\ max_workers = DefaultWorkers
    /\ test_count = DefaultTestCount
    /\ InitTopN
    /\ IdleScore
    /\ InitLatency
    /\ IdleParse
    /\ IdleDedup
    /\ IdleLoad
    /\ IdleSched
    /\ IdleSelect /\ IdleProbe
NextLatency == LatencyAttempt
SpecLatency == InitSpecLatency /\ [][NextLatency]_vars

InitSpecScore ==
    InitCfgDefault /\ InitScore /\ IdleLatency /\ IdleParse /\ IdleDedup /\ IdleLoad
        /\ IdleSched /\ IdleSelect /\ IdleProbe
NextScore == CalculateScore
SpecScore == InitSpecScore /\ [][NextScore]_vars

\* the selection, from the results of a run of run_tests that has returned
InitSpecSelect ==
    /\ variant \in Variants
    /\ latency_threshold = DefaultLatencyThreshold(variant)
    /\ max_workers = DefaultWorkers
    /\ test_count = DefaultTestCount
    /\ top_n \in IF variant = "NodeSelector" THEN {None} ELSE {DefaultTopN, LowTopN}
    /\ IdleScore /\ IdleLatency /\ IdleParse /\ IdleDedup /\ IdleEnv
    /\ ld_pc = "done"
    /\ rt_pc = "done"
    /\ submitted = 0
    /\ threads = 0
    /\ fut = << >>
    /\ snap = {}
    /\ done_q = << >>
    /\ completion_order = << >>
    /\ started = << >>
    /\ lock = "free"
    /\ \E c \in SelectCounts(MaxResults) :
           /\ nodes = SelectNodes(variant, c)
           /\ all_nodes = nodes
           /\ unique_nodes = nodes
           /\ results = RankedResults(variant, latency_threshold, c)
    /\ passed_count = Len(SelectSeq(results, LAMBDA r : r.success))
    /\ speed_tested_count =
           IF variant = "NodeSelector"
           THEN Len(SelectSeq(results, LAMBDA r : r.success /\ speed_was_tested(r)))
           ELSE 0
    /\ InitSelect
    /\ IdleProbe
NextSelect ==
    \/ SaveTestResults
    \/ GeneratePreferredNodeFile
    \/ GenerateNekoSubscription
SpecSelect == InitSpecSelect /\ [][NextSelect]_vars

InitSpecProbe ==
    /\ variant \in Variants
    /\ latency_threshold \in ThresholdSamples(variant)
    /\ max_workers = DefaultWorkers
    /\ test_count = DefaultTestCount
    /\ InitTopN
    /\ IdleScore /\ IdleLatency /\ IdleParse /\ IdleDedup /\ IdleLoad /\ IdleSched
    /\ IdleSelect
    /\ InitProbe
NextProbe == TestSingleNode
SpecProbe == InitSpecProbe /\ [][NextProbe]_vars

(***************************************************************************)
(* Properties.                                                             *)
(***************************************************************************)
\* the priority order of the grammars the specification gives
GrammarOrder ==
    <<"ssr", "vmess", "trojan", "vless", "ss", "http", "socks5", "host-port">>
\* the grammars of that order a program has: all eight in NodeSelector, the
\* first five in SubscriptionGenerator
GrammarsOf(v) == IF v = "NodeSelector" THEN 1..8 ELSE 1..5
\* the places in GrammarOrder of the grammars, among G, that line l matches
Matching(G, l) == {g \in G : regex_match(GrammarOrder[g], strip(l)) # NoMatch}
Least(S) == CHOOSE g \in S : \A h \in S : g <= h

\* C3 as stated: parse_node_line returns the protocol of the first of the eight
\* grammars ssr, vmess, trojan, vless, ss, http, socks5, host:port that the
\* line matches, and absence exactly when none matches.
C3_FirstOfEightGrammars ==
    pl_pc = "done" =>
        IF Matching(1..8, line) = {}
        THEN node = None
        ELSE node # None /\ node.type = GrammarOrder[Least(Matching(1..8, line))]

\* C3 as amended: the same over the grammars the program has - all eight in
\* NodeSelector, the first five (ssr, vmess, trojan, vless, ss) in
\* SubscriptionGenerator, for which http, socks5 and host:port lines are absent.
C3_FirstGrammarWins ==
    pl_pc = "done" =>
        LET M == Matching(GrammarsOf(variant), line)
        IN  IF M = {}
            THEN node = None
            ELSE /\ node # None
                 /\ node.type = GrammarOrder[Least(M)]
                 /\ node.original = strip(line)

C3_Witness ==
    /\ pl_pc = "done"
    /\ line = SS \o <<"a", "@", "a", ":", "1">>
    /\ node # None
    /\ node.type = "ss"
    /\ node.parts = << <<"a">> >>

\* No line matches two grammars: every grammar but host:port starts with its
\* own scheme, and host:port needs digits from the first ':' to the end.
GrammarsExclusive ==
    pl_pc = "done" => Cardinality(Matching(1..8, line)) <= 1

\* C1: at every point of run_tests the number of probes started and not yet
\* finished is at most the worker count, also with more descriptors than
\* workers.
C1_BoundedInFlight == Cardinality(InFlight) <= max_workers

C1_Witness ==
    /\ Len(nodes) > max_workers
    /\ Cardinality(InFlight) = max_workers
    /\ max_workers >= 2
    /\ Awaiting # {}

\* an unexpected exception ended the probe of descriptor i: one raised before
\* the try block of test_single_node, or one other than RequestException
\* raised by a request of the latency test, by the geo lookup or by a download
ProbeErrored(i) ==
    LET p == fut[i].input
        lt == test_latency(variant, latency_threshold, p.gets)
    IN  \/ p.print_raises
        \/ lt.pc = "raised"
        \/ /\ lt.fastest_success # None
           /\ \/ get_geo_info(variant, p.geo).raised
              \/ test_download_speed(variant, lt.fastest_success.latency, p.downloads).raised
EntriesOf(i) == {k \in 1..Len(results) : results[k].node = nodes[i].original}

\* C2: when run_tests has returned, whatever the completion order, a
\* descriptor whose probe met an unexpected error has no entry in results, no
\* descriptor has more than one, and in NodeSelector every descriptor whose
\* probe completed without such an error has exactly one, the result its
\* probe returned.
C2_OneResultPerCompletedProbe ==
    rt_pc = "done" =>
        \A i \in 1..Len(nodes) :
            /\ ProbeErrored(i) => EntriesOf(i) = {}
            /\ Cardinality(EntriesOf(i)) <= 1
            /\ (variant = "NodeSelector" /\ ~ProbeErrored(i)) =>
                   /\ Cardinality(EntriesOf(i)) = 1
                   /\ \A k \in EntriesOf(i) : results[k] = fut[i].outcome.value

C2_Witness ==
    /\ rt_pc = "done"
    /\ variant = "NodeSelector"
    /\ Len(nodes) = 3
    /\ fut[1].input.print_raises
    /\ ProbeErrored(2) /\ ~fut[2].input.print_raises
    /\ ~ProbeErrored(3)
    /\ Len(results) = 1
    /\ results[1].node = nodes[3].original

\* the place in list l of the first descriptor with raw line r
FirstIndex(l, r) ==
    CHOOSE i \in 1..Len(l) :
        l[i].original = r /\ \A j \in 1..(i - 1) : l[j].original # r
NoRawTwice(l) == \A j, k \in 1..Len(l) : j # k => l[j].original # l[k].original
\* out lists, once each and in the order of their first appearance, the
\* descriptors of l that are the first with their raw line
FirstSeenOrder(out, l) ==
    /\ NoRawTwice(out)
    /\ Originals(out) = Originals(l)
    /\ \A k \in 1..Len(out) : out[k] = l[FirstIndex(l, out[k].original)]
    /\ \A j, k \in 1..Len(out) :
           j < k => FirstIndex(l, out[j].original) < FirstIndex(l, out[k].original)
\* a raw line of the local list keeps the source tag 'local'
LocalWins(out, l) ==
    \A k \in 1..Len(out) :
        (\E i \in 1..Len(l) : l[i].original = out[k].original /\ l[i].source = "local")
            => out[k].source = "local"

\* the descriptors of out are first occurrences of their raw line in l, once
\* each and in the order of their first appearance
InFirstSeenOrder(out, l) ==
    /\ NoRawTwice(out)
    /\ \A k \in 1..Len(out) :
           /\ out[k].original \in Originals(l)
           /\ out[k] = l[FirstIndex(l, out[k].original)]
    /\ \A j, k \in 1..Len(out) :
           j < k => FirstIndex(l, out[j].original) < FirstIndex(l, out[k].original)

\* C4 as stated: the descriptors load_all_nodes returns are in first-seen
\* order keyed by the raw line, no raw line twice, and a raw line found both in
\* the local list and in a subscription keeps source 'local'.
C4_FirstSeenAlways ==
    ld_pc = "done" =>
        /\ InFirstSeenOrder(nodes, all_nodes)
        /\ LocalWins(nodes, all_nodes)

\* C4 as amended: the list before sampling is in first-seen order, and so is
\* the returned list unless a sample is drawn (test_count > 0 and more than
\* test_count distinct raw lines); a drawn sample is in any order.  In every
\* case no raw line is returned twice and a raw line found both in the local
\* list and in a subscription keeps source 'local'.
C4_FirstSeenUnlessSampled ==
    ld_pc = "done" =>
        /\ FirstSeenOrder(unique_nodes, all_nodes)
        /\ ~sampling(unique_nodes, test_count) => FirstSeenOrder(nodes, all_nodes)
        /\ NoRawTwice(nodes)
        /\ LocalWins(nodes, all_nodes)

C4_Witness ==
    /\ ld_pc = "done"
    /\ ~sampling(unique_nodes, test_count)
    /\ Len(all_nodes) = 3
    /\ all_nodes[1].source = "local"
    /\ all_nodes[2].source = "subscription"
    /\ all_nodes[3].original = all_nodes[1].original
    /\ all_nodes[3].source = "subscription"
    /\ Len(nodes) = 2
    /\ nodes[1].source = "local"

\* C5: deduplication is idempotent: a list whose raw lines are already unique
\* comes back unchanged, in order, and a second application gives what the
\* first gave.
C5_DedupIdempotent ==
    /\ (dd_runs >= 1 /\ NoRawTwice(dd_prev)) => dd_list = dd_prev
    /\ dd_runs = 2 => dd_list = dd_prev

C5_Witness ==
    /\ dd_runs = 2
    /\ Len(dd_list) = 2
    /\ dd_list = dd_prev
    /\ dd_list[1].source = "subscription"

\* the attempts of test_latency so far that count as a success: expected
\* status, measured below the threshold
SuccessfulAttempts ==
    {k \in 1..Len(test_results) :
        /\ ~test_results[k].error
        /\ test_results[k].status = test_urls(variant)[k].expected_status
        /\ test_results[k].latency < latency_threshold}

\* C6: once an attempt of test_latency measures a latency below 100 ms, with
\* the expected status or not, no later endpoint is requested: that attempt is
\* the last request made and test_latency has returned.
C6_EarlyExit ==
    \A k \in 1..Len(test_results) :
        (~test_results[k].error /\ test_results[k].latency < 100) =>
            /\ k = Len(test_results)
            /\ lt_pc = "done"
            /\ lt_log[Len(lt_log)] = <<"get", k>>

C6_Witness ==
    /\ lt_pc = "done"
    /\ Len(test_results) = 1
    /\ test_results[1].latency = 80
    /\ test_results[1].success
    /\ lt_log = << <<"get", 1>> >>

C6_WitnessUnexpectedStatus ==
    /\ lt_pc = "done"
    /\ Len(test_results) = 2
    /\ test_results[2].latency = 99
    /\ ~test_results[2].success
    /\ Len(test_urls(variant)) > 2

\* C7: test_latency reports passed exactly when at least one attempted
\* endpoint returned its expected status with a measured latency strictly
\* below the configured threshold.
C7_PassedIff ==
    lt_pc = "done" => (lt_ret.passed <=> SuccessfulAttempts # {})

C7_Witness ==
    /\ lt_pc = "done"
    /\ lt_ret.passed
    /\ Len(test_results) >= 2
    /\ SuccessfulAttempts = {2}
    /\ test_results[1].success
    /\ test_results[1].latency = latency_threshold

\* C8: the fastest_success returned by test_latency is one of the successful
\* attempts and none of them is faster; it is absent exactly when no attempt
\* succeeded.
C8_FastestSuccess ==
    lt_pc = "done" =>
        /\ (lt_ret.fastest_success = None) <=> (SuccessfulAttempts = {})
        /\ SuccessfulAttempts # {} =>
               /\ \E k \in SuccessfulAttempts :
                      test_results[k] = lt_ret.fastest_success
               /\ \A k \in SuccessfulAttempts :
                      lt_ret.fastest_success.latency <= test_results[k].latency

C8_Witness ==
    /\ lt_pc = "done"
    /\ Cardinality(SuccessfulAttempts) >= 2
    /\ 1 \in SuccessfulAttempts
    /\ lt_ret.fastest_success = test_results[1]
    /\ \E k \in SuccessfulAttempts : test_results[k].latency > test_results[1].latency

\* C9: calculate_score returns 0 for every input with latency <= 0, whatever
\* the throughput and success values are.
C9_ZeroForNoSignal ==
    (sc_pc = "done" /\ sc_latency <= 0) => sc_score = 0

C9_Witness ==
    /\ sc_pc = "done"
    /\ sc_latency = 0
    /\ sc_speed > 5000
    /\ sc_success
    /\ sc_score = 0

\* C10 as stated: for fixed throughput and success, a lower latency never has a
\* lower score - over all latencies, those <= 0 included.
C10_MonotoneAllLatencies ==
    sc_pc = "done" =>
        \A l2 \in ScoreLatencies :
            l2 <= sc_latency =>
                calculate_score(variant, l2, sc_speed, sc_success) >= sc_score

\* C10 as amended: among latencies > 0, for fixed throughput and success a lower
\* latency never has a lower score; for fixed latency and success (any latency)
\* a higher throughput never has a lower score.
C10_Monotone ==
    sc_pc = "done" =>
        /\ \A l2 \in ScoreLatencies :
               (0 < l2 /\ l2 <= sc_latency) =>
                   calculate_score(variant, l2, sc_speed, sc_success) >= sc_score
        /\ \A s2 \in ScoreSpeeds :
               s2 >= sc_speed =>
                   calculate_score(variant, sc_latency, s2, sc_success) >= sc_score

C10_Witness ==
    /\ sc_pc = "done"
    /\ sc_latency = 300
    /\ sc_speed = 1000
    /\ sc_score > 0
    /\ calculate_score(variant, 299, sc_speed, sc_success) > sc_score
    /\ calculate_score(variant, sc_latency, 1001, sc_success) > sc_score

\* C11: whatever the latency, the throughput and the success value, the score
\* calculate_score returns lies between 0 and 100 (1000 tenths); the witness
\* shows that 100 itself is returned.
C11_ScoreInRange ==
    sc_pc = "done" => (0 <= sc_score /\ sc_score <= 1000)

C11_Witness ==
    /\ sc_pc = "done"
    /\ sc_latency > 0
    /\ sc_speed > 10000
    /\ sc_success
    /\ sc_score = 1000

\* x, a whole number of tenths, is n/d rounded to one decimal place
RoundsToTenths(x, n, d) == (2 * (10 * n - x * d) <= d) /\ (2 * (x * d - 10 * n) <= d)

\* C12 as stated: for every latency > 0 the score is 0.5 * latency component +
\* 0.3 * throughput component + 0.2 * success component (100 or 0) to one
\* decimal place, and 45 ms, 6000 KB/s and success give 97.0.
C12_ReferenceWeights ==
    (sc_pc = "done" /\ sc_latency > 0) =>
        /\ RoundsToTenths(sc_score,
                          5 * sc_latency_score + 3 * sc_speed_score
                              + 2 * (IF sc_success THEN 100 ELSE 0), 10)
        /\ (sc_latency = 45 /\ sc_speed = 6000 /\ sc_success) => sc_score = 970

\* C12 as amended: for every latency > 0 the score is the weighted sum of the
\* three components to one decimal place, with weights 0.5/0.3/0.2 in
\* NodeSelector and 0.6/0.4/0.2 divided by 1.2 in SubscriptionGenerator; 45 ms,
\* 6000 KB/s and success give 97.0 in NodeSelector and 100.0 in
\* SubscriptionGenerator.
C12_WeightedSum ==
    (sc_pc = "done" /\ sc_latency > 0) =>
        LET u == IF sc_success THEN 100 ELSE 0
        IN  /\ variant = "NodeSelector" =>
                   RoundsToTenths(sc_score, 5 * sc_latency_score + 3 * sc_speed_score + 2 * u,
                                  10)
            /\ variant = "SubscriptionGenerator" =>
                   RoundsToTenths(sc_score, 6 * sc_latency_score + 4 * sc_speed_score + 2 * u,
                                  12)
            /\ (sc_latency = 45 /\ sc_speed = 6000 /\ sc_success) =>
                   sc_score = IF variant = "NodeSelector" THEN 970 ELSE 1000

C12_Witness ==
    /\ sc_pc = "done"
    /\ variant = "NodeSelector"
    /\ sc_latency = 45
    /\ sc_speed = 6000
    /\ sc_success
    /\ sc_latency_score = 100
    /\ sc_speed_score = 90
    /\ sc_score = 970

\* the reference step tables: <<bound, component>> in the order they are tried
ReferenceLatencySteps ==
    << <<50, 100>>, <<100, 95>>, <<200, 85>>, <<300, 75>>, <<500, 60>>, <<1000, 40>> >>
ReferenceThroughputSteps ==
    << <<10000, 100>>, <<5000, 90>>, <<2000, 80>>, <<1000, 70>>, <<500, 60>>, <<100, 40>> >>
\* the tables of SubscriptionGenerator
GeneratorLatencySteps ==
    << <<50, 100>>, <<100, 95>>, <<200, 85>>, <<300, 75>>, <<500, 60>> >>
GeneratorThroughputSteps ==
    << <<5000, 100>>, <<2000, 90>>, <<1000, 80>>, <<500, 70>>, <<100, 50>> >>
\* the component of the first step whose bound is above x, else `otherwise`
BelowStep(steps, x, otherwise) ==
    LET hit == {k \in 1..Len(steps) : x < steps[k][1]}
    IN  IF hit = {} THEN otherwise ELSE steps[Least(hit)][2]
\* 0 for throughput 0, the component of the first step whose bound is below x,
\* else `otherwise`
AboveStep(steps, x, otherwise) ==
    LET hit == {k \in 1..Len(steps) : x > steps[k][1]}
    IN  IF x = 0 THEN 0 ELSE IF hit = {} THEN otherwise ELSE steps[Least(hit)][2]

\* C13 as stated: the latency and throughput components calculate_score uses
\* are those of the reference step tables, for every input it scores.
C13_ReferenceTables ==
    (sc_pc = "done" /\ sc_latency > 0) =>
        /\ sc_latency_score = BelowStep(ReferenceLatencySteps, sc_latency, 20)
        /\ sc_speed_score = AboveStep(ReferenceThroughputSteps, sc_speed, 20)

\* C13 as amended: NodeSelector uses the reference step tables;
\* SubscriptionGenerator uses latency <50 100, <100 95, <200 85, <300 75,
\* <500 60, otherwise 40, and throughput 0 0, >5000 100, >2000 90, >1000 80,
\* >500 70, >100 50, otherwise 30.
C13_StepTables ==
    (sc_pc = "done" /\ sc_latency > 0) =>
        IF variant = "NodeSelector"
        THEN /\ sc_latency_score = BelowStep(ReferenceLatencySteps, sc_latency, 20)
             /\ sc_speed_score = AboveStep(ReferenceThroughputSteps, sc_speed, 20)
        ELSE /\ sc_latency_score = BelowStep(GeneratorLatencySteps, sc_latency, 40)
             /\ sc_speed_score = AboveStep(GeneratorThroughputSteps, sc_speed, 30)

C13_Witness ==
    /\ sc_pc = "done"
    /\ variant = "NodeSelector"
    /\ sc_latency = 1000
    /\ sc_speed = 10000
    /\ sc_latency_score = 20
    /\ sc_speed_score = 90

\* the place of x in the sequence q
PlaceIn(q, x) == CHOOSE k \in 1..Len(q) : q[k] = x
\* the descriptor (its place in nodes) whose probe returned result r
ProbeOf(r) == CHOOSE i \in 1..Len(nodes) : nodes[i].original = r.node
NonIncreasing(l) == \A j, k \in 1..Len(l) : j < k => l[j].score >= l[k].score

\* C14 as stated: after run_tests the results are in non-increasing order of
\* score and two results of equal score are in the order in which their probes
\* completed.
C14_TiesInCompletionOrder ==
    rt_pc = "done" =>
        /\ NonIncreasing(results)
        /\ \A j, k \in 1..Len(results) :
               (j < k /\ results[j].score = results[k].score) =>
                   PlaceIn(completion_order, ProbeOf(results[j]))
                       < PlaceIn(completion_order, ProbeOf(results[k]))

\* C14 as amended: the step that ends run_tests leaves in results the results
\* that were appended, in non-increasing order of score, two of equal score in
\* the order in which they were appended (the order in which as_completed
\* yielded their futures, which for the probes already finished when
\* as_completed was called need not be the order in which they finished).
C14_StableSort ==
    [][(rt_pc = "collect" /\ rt_pc' = "done") =>
           /\ Len(results') = Len(results)
           /\ {results'[k] : k \in 1..Len(results')} = {results[k] : k \in 1..Len(results)}
           /\ NonIncreasing(results')
           /\ \A j, k \in 1..Len(results') :
                  (j < k /\ results'[j].score = results'[k].score) =>
                      PlaceIn(results, results'[j]) < PlaceIn(results, results'[k])]_vars

C14_Witness ==
    /\ rt_pc = "done"
    /\ Len(results) = 3
    /\ results[1].score > results[2].score
    /\ results[2].score = results[3].score
    /\ completion_order[3] = ProbeOf(results[1])
    /\ PlaceIn(completion_order, ProbeOf(results[2]))
           < PlaceIn(completion_order, ProbeOf(results[3]))

\* what makes a result eligible for the artifact: a score above the minimum
\* and a tested throughput (above the floor of 100 KB/s in the subscription)
Eligible(r) ==
    IF variant = "NodeSelector" THEN r.score > 0 /\ speed_was_tested(r)
    ELSE r.score > 300 /\ r.speed.kbps > 100
\* top-N: 20 in NodeSelector, --top-n in SubscriptionGenerator
TopN == IF variant = "NodeSelector" THEN PreferredLimit ELSE top_n

\* C15: the nodes selected for the artifact are the first top-N, in rank
\* order, of the eligible results: filtered first, truncated second, so never
\* more than top-N and never fewer while an eligible result is left out.
C15_FilterThenTruncate ==
    se_pc = "done" =>
        /\ valid_nodes = Take(Filter(results, Eligible), TopN)
        /\ Len(valid_nodes) <= TopN
        /\ (\E k \in 1..Len(results) :
                Eligible(results[k]) /\ \A j \in 1..Len(valid_nodes) : valid_nodes[j] # results[k])
               => Len(valid_nodes) = TopN

\* C15 holds of the subscription of SubscriptionGenerator
C15_SubscriptionFilterThenTruncate ==
    (se_pc = "done" /\ variant = "SubscriptionGenerator") =>
        /\ valid_nodes = Take(Filter(results, Eligible), TopN)
        /\ Len(valid_nodes) <= TopN

C15_SubscriptionWitness ==
    /\ se_pc = "done"
    /\ variant = "SubscriptionGenerator"
    /\ top_n = LowTopN
    /\ Len(valid_nodes) = LowTopN
    /\ ~is_quality_node(results[2])
    /\ Len(Filter(results, Eligible)) > LowTopN

\* the call of test_download_speed in the log of a probe, the downloads it
\* requested, in order, and what it returned
Invoked == \E k \in 1..Len(pb_out.log) : pb_out.log[k][1] = "call"
IsGet(e) == e[1] = "get"
Requested == LET gets == SelectSeq(pb_out.log, IsGet) IN [k \in 1..Len(gets) |-> gets[k][2]]
LoopEntered ==
    Invoked /\ (variant = "NodeSelector" \/ pb_out.log[1][2] < 1000)
UpTo(n) == [k \in 1..n |-> k]
\* the latency test of the probe
LatencyTest == test_latency(variant, latency_threshold, pb_input.gets)
LatencyPassed == LatencyTest.pc = "done" /\ LatencyTest.fastest_success # None
\* the outcome of the download from the k-th URL
DownloadAt(k) == OutcomeAt(pb_input.downloads, k)
NoData(k) ==
    \/ DownloadAt(k).kind = "RequestException"
    \/ DownloadAt(k).kind = "download" /\ DownloadAt(k).data_size = 0
\* the first URL whose download works with a body that is not empty, every
\* URL before it having failed or given an empty body
FirstGood ==
    {k \in 1..Len(speed_test_urls(variant)) :
        /\ DownloadAt(k).kind = "download"
        /\ DownloadAt(k).data_size > 0
        /\ \A j \in 1..(k - 1) : NoData(j)}

\* C16: test_single_node calls test_download_speed only for a descriptor whose
\* latency test passed, with a winning latency below the threshold; when the
\* latency test did not pass it makes no call and no download request, and the
\* result NodeSelector returns says 'Not Tested'.
C16_SpeedTestOnlyAfterPass ==
    (pb_pc = "done" /\ ~pb_input.print_raises) =>
        /\ Invoked =>
               /\ LatencyPassed
               /\ LatencyTest.fastest_success.latency < latency_threshold
               /\ pb_out.log[1] = <<"call", LatencyTest.fastest_success.latency>>
        /\ ~LatencyPassed =>
               /\ pb_out.log = << >>
               /\ (variant = "NodeSelector" /\ LatencyTest.pc = "done") =>
                      /\ pb_out.value # None
                      /\ pb_out.value.speed = NotTested
                      /\ pb_out.value.skipped_speed_test
               /\ variant = "SubscriptionGenerator" => pb_out.value = None

C16_Witness ==
    /\ pb_pc = "done"
    /\ variant = "NodeSelector"
    /\ pb_input.gets = <<Response(150, 200)>>
    /\ pb_input.downloads = <<Download(512000, 6000)>>
    /\ ~LatencyPassed
    /\ pb_out.log = << >>
    /\ pb_out.value.speed = NotTested

C16_WitnessInvoked ==
    /\ pb_pc = "done"
    /\ LatencyPassed
    /\ Invoked
    /\ pb_out.value # None
    /\ pb_out.value.speed.kbps = 6000

\* C17: test_download_speed requests the download URLs in their order; at the
\* first URL whose download works with a body that is not empty it returns the
\* measurement of that one download and requests no later URL.
C17_FirstGoodDownloadReturned ==
    (pb_pc = "done" /\ LoopEntered) =>
        /\ \E n \in 0..Len(speed_test_urls(variant)) : Requested = UpTo(n)
        /\ \A k \in FirstGood :
               /\ Requested = UpTo(k)
               /\ pb_out.log[Len(pb_out.log)] = <<"return", DownloadAt(k).kbps>>
               /\ ~pb_out.raised
               /\ pb_out.value # None
               /\ pb_out.value.speed.kbps = DownloadAt(k).kbps

C17_Witness ==
    /\ pb_pc = "done"
    /\ LoopEntered
    /\ pb_input.downloads = <<Download(0, 0), Download(512000, 6000), Download(512000, 6000)>>
    /\ Len(speed_test_urls(variant)) = 3
    /\ FirstGood = {2}
    /\ Requested = <<1, 2>>
    /\ pb_out.value.speed.kbps = 6000

\* C18: when every download URL fails or gives an empty body,
\* test_download_speed has requested each of them and returns 0, and the probe
\* still returns a result, with throughput 0 ('Failed' in NodeSelector).
C18_AllDownloadsFailed ==
    (/\ pb_pc = "done"
     /\ LoopEntered
     /\ \A k \in 1..Len(speed_test_urls(variant)) : NoData(k)) =>
        /\ Requested = UpTo(Len(speed_test_urls(variant)))
        /\ pb_out.log[Len(pb_out.log)] = <<"return", 0>>
        /\ ~pb_out.raised
        /\ pb_out.value # None
        /\ pb_out.value.speed.kbps = 0
        /\ variant = "NodeSelector" => pb_out.value.speed = Failed
        /\ pb_out.value.latency = pb_out.log[1][2]
        /\ pb_out.value.success

C18_Witness ==
    /\ pb_pc = "done"
    /\ variant = "NodeSelector"
    /\ LoopEntered
    /\ pb_input.downloads = <<RequestException, Download(0, 0), RequestException>>
    /\ pb_out.value # None
    /\ pb_out.value.speed = Failed
    /\ pb_out.value.score > 0

\* C19: an attempt of test_latency that met a request exception is recorded
\* as failed with latency -1 and status 0, and the loop goes on: the next
\* endpoint, if there is one, is requested; when a later endpoint succeeds the
\* latency test passes with it.
C19_RequestExceptionGoesOn ==
    \A k \in 1..Len(test_results) :
        test_results[k].error =>
            /\ test_results[k].latency = -1
            /\ test_results[k].status = 0
            /\ ~test_results[k].success
            /\ test_results[k].url = test_urls(variant)[k].name
            /\ k < Len(test_urls(variant)) =>
                   \/ lt_pc = "loop" /\ lt_i = k + 1 /\ Len(test_results) = k
                   \/ \E e \in 1..Len(lt_log) : lt_log[e] = <<"get", k + 1>>
            /\ (lt_pc = "done" /\ \E j \in SuccessfulAttempts : j > k) =>
                   /\ lt_ret.passed
                   /\ lt_ret.fastest_success.latency >= 0

C19_Witness ==
    /\ lt_pc = "done"
    /\ Len(test_results) = 2
    /\ test_results[1].error
    /\ test_results[1].latency = -1
    /\ SuccessfulAttempts = {2}
    /\ lt_ret.passed
    /\ lt_ret.fastest_success = test_results[2]

\* the lines of the nodes file, none when it is missing
FileLinesRead == IF nodes_file = None THEN << >> ELSE nodes_file.lines
\* the places of the lines of the file that some grammar of the program
\* matches, comments and blank lines apart
Parsable ==
    {j \in 1..Len(FileLinesRead) :
        /\ ~skipped(strip(FileLinesRead[j]))
        /\ Matching(GrammarsOf(variant), FileLinesRead[j]) # {}}
Unparsable ==
    {j \in 1..Len(FileLinesRead) :
        /\ ~skipped(strip(FileLinesRead[j]))
        /\ Matching(GrammarsOf(variant), FileLinesRead[j]) = {}}

\* C20: a line of the nodes file that no grammar matches gives no descriptor,
\* changes nothing else, and does not stop the loading: the descriptors loaded
\* are those of the parsable lines, all of them and in file order, those after
\* an unparsable line included.
C20_UnparsableLineSkipped ==
    [][(ld_pc = "call" /\ ld_pc' = "done") =>
           /\ Len(all_nodes') = Cardinality(Parsable)
           /\ \A j \in Parsable :
                  LET k == Cardinality({i \in Parsable : i <= j})
                  IN  /\ all_nodes'[k].original = strip(FileLinesRead[j])
                      /\ all_nodes'[k].type =
                             GrammarOrder[Least(Matching(GrammarsOf(variant), FileLinesRead[j]))]
                      /\ all_nodes'[k].source = "local"
           /\ \A j \in Unparsable :
                  (\A i \in Parsable : strip(FileLinesRead[i]) # strip(FileLinesRead[j]))
                      => strip(FileLinesRead[j]) \notin Originals(all_nodes')
           /\ UNCHANGED <<cfgVars, envVars, scoreVars, latVars, parseVars, dedupVars,
                          schedVars, selVars, probeVars>>]_vars

C20_Witness ==
    /\ ld_pc = "done"
    /\ variant = "NodeSelector"
    /\ Len(FileLinesRead) = 3
    /\ 1 \in Parsable
    /\ 2 \in Unparsable
    /\ 3 \in Parsable
    /\ Len(all_nodes) = 2
    /\ all_nodes[2].original = FileLinesRead[3]
    /\ nodes = all_nodes

\* The lines of a text that a reader of node lines takes as descriptors: those
\* that are neither blank nor comments.
RawLines(text) == SelectSeq(text, LAMBDA l : ~skipped(l))

\* text lists exactly the raw lines of the results listed, in their order,
\* each right after the comment about(j, listed[j])
Annotated(text, listed, about(_, _)) ==
    /\ RawLines(text) = [j \in 1..Len(listed) |-> listed[j].node]
    /\ \A j \in 1..Len(listed) :
           \E k \in 2..Len(text) :
               text[k] = listed[j].node /\ text[k - 1] = about(j, listed[j])

\* where the section of all tested nodes starts in the artifact of NodeSelector
TestedHeadingAt ==
    CHOOSE k \in 1..Len(output) : output[k] = Comment(<<"All Tested Nodes">>)

\* the comment a generator writes before the raw line of a selected node
SelectedAnnotation(j, r) ==
    IF variant = "NodeSelector" THEN recommended_annotation(j, r)
    ELSE subscription_annotation(j, r)

C21_WitnessSubscription ==
    /\ variant = "SubscriptionGenerator"
    /\ se_pc = "done"
    /\ output # None
    /\ Len(valid_nodes) >= 2
    /\ Len(results) > Len(valid_nodes)

C22_WitnessNothingLoaded ==
    /\ se_pc = "done"
    /\ nodes_file # None
    /\ nodes_file.lines = <<UnparsableLine>>
    /\ nodes = << >>
    /\ rt_pc = "returned"
    /\ output = None

\* C23 as stated: in test_latency a pause separates any two consecutive
\* requests; a request that is followed by another one, whether it was
\* answered or raised a request exception, is followed by the pause first.
C23_PauseBetweenAttempts ==
    \A k \in 1..(Len(lt_log) - 1) :
        lt_log[k][1] = "get" => lt_log[k + 1][1] = "sleep"

\* C24 as stated: in test_download_speed a download that raised a request
\* exception is followed by the pause before the next URL is requested.
C24_PauseAfterFailedDownload ==
    (pb_pc = "done" /\ LoopEntered) =>
        \A k \in 1..(Len(pb_out.log) - 1) :
            (/\ pb_out.log[k][1] = "get"
             /\ DownloadAt(pb_out.log[k][2]).kind = "RequestException"
             /\ pb_out.log[k + 1][1] = "get")
                => FALSE

\* C25: with a sampling bound test_count > 0 below the number of deduplicated
\* descriptors, load_all_nodes returns exactly test_count descriptors, each one
\* of the deduplicated list and no two the same; in every other case it
\* returns the deduplicated list itself.
C25_SampleOfExactSize ==
    ld_pc = "done" =>
        IF test_count > 0 /\ Len(unique_nodes) > test_count
        THEN /\ Len(nodes) = test_count
             /\ \A j \in 1..Len(nodes) :
                    \E k \in 1..Len(unique_nodes) : nodes[j] = unique_nodes[k]
             /\ \A j, k \in 1..Len(nodes) : j # k => nodes[j] # nodes[k]
        ELSE nodes = unique_nodes

\* C25 witness: three distinct descriptors are loaded under test_count = 2,
\* and the two returned are the third and the first.
C25_Witness ==
    /\ ld_pc = "done"
    /\ test_count = MaxTestCount
    /\ Len(unique_nodes) = MaxTestCount + 1
    /\ Len(nodes) = MaxTestCount
    /\ nodes[1] = unique_nodes[Len(unique_nodes)]
    /\ nodes[2] = unique_nodes[1]

\* C25 witness: a bound that the deduplicated count does not exceed leaves
\* the list as it is.
C25_WitnessNoSample ==
    /\ ld_pc = "done"
    /\ test_count = MaxTestCount
    /\ Len(all_nodes) > Len(unique_nodes)
    /\ Len(unique_nodes) = MaxTestCount
    /\ nodes = unique_nodes

\* the probes in sequence q, as a set
ProbesIn(q) == {q[k] : k \in 1..Len(q)}

\* C26: while every call of test_single_node returns, run_tests returns, and
\* by then every probe submitted has been taken by a worker and has finished,
\* no probe waits or runs, and every future has been collected; a probe that
\* waits or runs is never withdrawn (it leaves the queue only by starting and
\* its worker only by finishing).
C26_EveryProbeCompletes ==
    /\ (rt_pc = "submit") ~> (rt_pc = "done")
    /\ [](rt_pc = "done" =>
             /\ submitted = Len(nodes)
             /\ ProbesIn(started) = 1..Len(nodes)
             /\ ProbesIn(completion_order) = 1..Len(nodes)
             /\ InFlight = {}
             /\ Awaiting = {}
             /\ \A i \in DOMAIN fut : fut[i].state = "collected")
    /\ [][\A i \in DOMAIN fut :
              /\ fut[i].state = "pending" => fut'[i].state \in {"pending", "running"}
              /\ fut[i].state = "running" => fut'[i].state \in {"running", "finished"}]_vars

\* C26 witness: run_tests has returned after LiveNodes probes were run by a
\* single worker, the last of them started after the first had finished.
C26_Witness ==
    /\ rt_pc = "done"
    /\ max_workers = 1
    /\ Len(nodes) = LiveNodes
    /\ Len(started) = LiveNodes
    /\ Len(completion_order) = LiveNodes
    /\ InFlight = {}
    /\ Awaiting = {}

\* C27: the scheduler never retries.  In a run no descriptor is taken twice
\* by a worker and none finishes twice, whatever its probe returned or raised,
\* and nothing is started for a future that has been collected.
C27_NoRetry ==
    /\ \A j, k \in 1..Len(started) : j # k => started[j] # started[k]
    /\ \A j, k \in 1..Len(completion_order) :
           j # k => completion_order[j] # completion_order[k]
    /\ \A i \in DOMAIN fut :
           fut[i].state \in {"finished", "yielded", "collected"} => i \in ProbesIn(started)

\* C27 witness: run_tests has returned from a run of three descriptors in which
\* one probe raised an unexpected exception and another found no endpoint
\* answering; each of the three was started once.
C27_Witness ==
    /\ rt_pc = "done"
    /\ Len(nodes) = 3
    /\ Len(started) = 3
    /\ ProbeErrored(1)
    /\ ~ProbeErrored(2)
    /\ fut[2].input.gets = << >>
    /\ ~ProbeErrored(3)

\* C28: the updates of self.results and of the pass counters exclude one
\* another.  At most one result is being appended at any moment and self.lock
\* is held exactly then; while the probes are collected, every step that
\* changes the collection or a counter is taken by the holder of the lock,
\* which releases it, and leaves the collection as it was with one result
\* added at the end, so that nothing collected is lost or overwritten.
C28_ExclusiveAppends ==
    /\ [](/\ lock \in {"free", "main"}
          /\ Cardinality(Yielded) <= 1
          /\ lock = "main" <=> Yielded # {})
    /\ [][(/\ rt_pc = "collect"
           /\ rt_pc' = "collect"
           /\ \/ results' # results
              \/ passed_count' # passed_count
              \/ speed_tested_count' # speed_tested_count)
              => /\ lock = "main"
                 /\ lock' = "free"
                 /\ Len(results') = Len(results) + 1
                 /\ SubSeq(results', 1, Len(results)) = results
                 /\ \E i \in Yielded : results'[Len(results')] = fut[i].outcome.value
                 /\ passed_count' \in {passed_count, passed_count + 1}
                 /\ speed_tested_count' \in {speed_tested_count, speed_tested_count + 1}]_vars

\* C28 witness: the main thread holds the lock to append a second result
\* while a probe is still running in a worker.
C28_Witness ==
    /\ lock = "main"
    /\ Yielded # {}
    /\ Len(results) = 1
    /\ InFlight # {}

\* C29 as stated, for the result a probe returns, which is what run_tests
\* appends to self.results: a result with success true has a score above 0,
\* and a result with score 0 has success false.
C29_SuccessIffScored ==
    (pb_pc = "done" /\ ~pb_out.raised /\ pb_out.value # None) =>
        /\ pb_out.value.success => pb_out.value.score > 0
        /\ pb_out.value.score = 0 => ~pb_out.value.success

\* C30: in the report save_test_results writes, passed_latency_test is the
\* number of entries of all_results with success true, speed_tested is the
\* number of those whose throughput was measured, and
\* speed_tested <= passed_latency_test <= length of all_results <= total_tested,
\* total_tested being the number of descriptors tested, in whatever order the
\* probes completed.
C30_ReportCounts ==
    results_file # None =>
        LET all == results_file.all_results
            passed == SelectSeq(all, LAMBDA r : r.success)
            measured == SelectSeq(passed, LAMBDA r : speed_was_tested(r))
        IN  /\ results_file.passed_latency_test = Len(passed)
            /\ results_file.speed_tested = Len(measured)
            /\ results_file.speed_tested <= results_file.passed_latency_test
            /\ results_file.passed_latency_test <= Len(all)
            /\ Len(all) <= results_file.total_tested
            /\ results_file.total_tested = Len(nodes)
            /\ all = results

\* C30 witness: a report of three descriptors tested, of which one probe
\* raised, one found no endpoint answering, and one passed the latency test
\* with every download failing (0 < 1 < 2 < 3), the second probe having
\* finished first.
C30_Witness ==
    /\ results_file # None
    /\ results_file.total_tested = 3
    /\ Len(results_file.all_results) = 2
    /\ results_file.passed_latency_test = 1
    /\ results_file.speed_tested = 0
    /\ Len(completion_order) = 3
    /\ completion_order[1] = 2

\* C30 witness: a report in which a throughput was measured.
C30_WitnessMeasured ==
    /\ results_file # None
    /\ results_file.total_tested = 3
    /\ Len(results_file.all_results) = 3
    /\ results_file.passed_latency_test = 2
    /\ results_file.speed_tested = 1
====
